---- MODULE Spec2Model ----
(***************************************************************************)
(* Model of the Yuri TypeScript toolbox: the nearby declaration resolver,  *)
(* the Pick/Omit shape resolution of the class and factory generators and  *)
(* the view-schema splitter and emitter of generateViewInterfaces.         *)
(*                                                                         *)
(* Texts (names, type expressions, tokens) are sequences of lexemes, so    *)
(* that splitting on "." and matching the token patterns are computed as   *)
(* the code computes them.  A JS Set is a duplicate-free sequence in       *)
(* insertion order, a JS Map a sequence of key/value records in insertion  *)
(* order of the keys.                                                      *)
(***************************************************************************)
EXTENDS Integers, Sequences, FiniteSets, TLC

VARIABLES req, disk, project, pc, cur, probes, loads, her, found,
          properties, shown, written, edited,
          split, final, vi, ti, out, warnings, generated,
          sfCache, events, lookups, document

vars == <<req, disk, project, pc, cur, probes, loads, her, found,
          properties, shown, written, edited,
          split, final, vi, ti, out, warnings, generated,
          sfCache, events, lookups, document>>

\* the state that outlives a command: _sfCache, the host's file events, the
\* ensureFileLoaded calls in flight, the text of the edited class
hostVars == <<sfCache, events, lookups, document>>

resolveVars == <<cur, probes, loads, her, found, properties>>
viewVars == <<split, final, vi, ti, out, warnings, generated>>

(***************************************************************************)
(* Bounds of the explored inputs.                                          *)
(***************************************************************************)
MaxFiles == 2
MaxKeys == 2
MaxTokens == 3

(***************************************************************************)
(* Generic helpers on sequences.                                           *)
(***************************************************************************)
Range(s) == {s[i] : i \in 1..Len(s)}

RECURSIVE SeqsUpTo(_, _)
SeqsUpTo(S, n) ==
  IF n = 0 THEN {<<>>}
  ELSE LET shorter == SeqsUpTo(S, n - 1)
       IN shorter \cup {Append(s, x) : s \in {t \in shorter : Len(t) = n - 1}, x \in S}

RECURSIVE Concat(_)
Concat(ss) == IF ss = <<>> THEN <<>> ELSE Head(ss) \o Concat(Tail(ss))

IndexOf(s, x) ==
  IF \E i \in 1..Len(s) : s[i] = x
  THEN CHOOSE i \in 1..Len(s) : s[i] = x /\ \A j \in 1..(i - 1) : s[j] # x
  ELSE 0

\* Set.prototype.add on an insertion-ordered set
SetAdd(s, x) == IF x \in Range(s) THEN s ELSE Append(s, x)

\* Set.prototype.delete
SetDelete(s, x) == SelectSeq(s, LAMBDA y : y # x)

(***************************************************************************)
(* Texts.                                                                  *)
(***************************************************************************)
\* "x.y.z".split(".") : the pieces between the "." lexemes
RECURSIVE SplitDot(_)
SplitDot(t) ==
  LET i == IndexOf(t, ".")
  IN IF i = 0 THEN <<t>>
     ELSE <<SubSeq(t, 1, i - 1)>> \o SplitDot(SubSeq(t, i + 1, Len(t)))

\* name.split(".").pop()
SplitPop(t) == LET parts == SplitDot(t) IN parts[Len(parts)]

(***************************************************************************)
(* Source model: members, declarations, source files.                      *)
(***************************************************************************)
NoAnnot == ""
Throws == "!throws"

\* src/types.ts PropInfo
PropInfo(n, t, o) == [name |-> n, type |-> t, isOptional |-> o]

getPropTypeFast(p) ==
  IF p.tn # NoAnnot THEN p.tn
  ELSE IF p.chk = Throws THEN "any" ELSE p.chk

\* iface.getProperties().map(p => ({name, type: getPropTypeFast(p), isOptional}))
PropsOfMembers(ms) ==
  LET ps == SelectSeq(ms, LAMBDA m : m.sig = "prop")
  IN [i \in 1..Len(ps) |-> PropInfo(ps[i].name, getPropTypeFast(ps[i]), ps[i].q)]

\* decl.getType().getProperties().map(sym => ...): a symbol declared by a
\* property signature goes through getPropTypeFast, any other symbol through
\* sym.getTypeAtLocation(decl).getText() with "any" when that throws
CheckerProps(ms) ==
  [i \in 1..Len(ms) |->
     LET m == ms[i]
     IN IF m.sig = "prop"
        THEN PropInfo(m.name, getPropTypeFast(m), m.q)
        ELSE PropInfo(m.name, IF m.chk = Throws THEN "any" ELSE m.chk, FALSE)]

getPropsFromDecl(decl) ==
  IF decl.kind = "interface" THEN PropsOfMembers(decl.members)
  ELSE IF decl.alias = "literal" THEN PropsOfMembers(decl.members)
  ELSE IF decl.alias = "throws" THEN <<>>
  ELSE CheckerProps(decl.members)

NoDecl == [kind |-> "none", name |-> "", alias |-> "none", members |-> <<>>,
           heritage |-> <<>>, sel |-> <<>>]

NoPath == [stem |-> <<>>, ext |-> ""]
NoFound == [path |-> NoPath, decl |-> NoDecl]

\* sf.getInterface(simple) / sf.getTypeAlias(simple): first declaration of that
\* kind whose identifier is the whole text `simple`
GetDecl(sf, kind, simple) ==
  LET hits == SelectSeq(sf.decls, LAMBDA d : d.kind = kind /\ <<d.name>> = simple)
  IN IF hits = <<>> THEN NoDecl ELSE hits[1]

\* idecl = sf.getInterface(simple); if (idecl) return idecl;
\* tdecl = sf.getTypeAlias(simple); if (tdecl) return tdecl;
LookupDecl(sf, simple) ==
  LET idecl == GetDecl(sf, "interface", simple)
      tdecl == GetDecl(sf, "type", simple)
  IN IF idecl.kind # "none" THEN idecl ELSE tdecl

(***************************************************************************)
(* Paths and module resolution.                                            *)
(***************************************************************************)
Path(stem, ext) == [stem |-> stem, ext |-> ext]

CandidateExts == <<".ts", ".tsx", ".d.ts", "/index.ts", "/index.tsx">>
GuessExts == <<".ts", ".tsx", ".d.ts">>

\* the candidates of resolveModuleToFsPath, in probing order
Candidates(spec) == [i \in 1..Len(CandidateExts) |-> Path(spec.stem, CandidateExts[i])]

\* the same-directory guesses of findDeclNearby, in probing order
Guesses(simple) == [i \in 1..Len(GuessExts) |-> Path(simple, GuessExts[i])]

fileExists(p) == p \in DOMAIN disk /\ disk[p].exists

\* project.getSourceFile(fsPath)
IsLoaded(p) == p \in DOMAIN project /\ project[p].loaded

(***************************************************************************)
(* Heritage parsing.                                                       *)
(***************************************************************************)
Wrappers == {<<"Readonly">>, <<"Partial">>, <<"Required">>}

\* typeNode.getText() of a type node: the name, then its type arguments
RECURSIVE GetText(_)
GetText(tn) ==
  IF tn.targs = <<>> THEN tn.name
  ELSE tn.name \o <<"<">>
       \o Concat([i \in 1..Len(tn.targs) |->
                    (IF i = 1 THEN <<>> ELSE <<",">>) \o GetText(tn.targs[i])])
       \o <<">">>

\* the empty text stands for null
RECURSIVE getBaseNameFromTypeArg(_)
getBaseNameFromTypeArg(tn) ==
  IF tn.ref
  THEN IF tn.name \in Wrappers /\ tn.targs # <<>>
       THEN getBaseNameFromTypeArg(tn.targs[1])
       ELSE tn.name
  ELSE GetText(tn)

\* the members of the key argument (a union is flattened); only string
\* literal types contribute
extractStringLiteralKeys(keys) ==
  Concat([i \in 1..Len(keys) |-> IF keys[i].lit THEN keys[i].quoted ELSE <<>>])

\* Array.from(args[1].getText().matchAll(/['"]([^'"]+)['"]/g)).map(mm => mm[1])
QuotedKeys(keys) == Concat([i \in 1..Len(keys) |-> keys[i].quoted])

\* base name and key list of one heritage type node, per command
BaseOfNode(cmd, tn) ==
  IF cmd = "class" THEN getBaseNameFromTypeArg(tn.base)
  ELSE SplitPop(GetText(tn.base))

KeysOfNode(cmd, tn) ==
  IF cmd = "class" THEN extractStringLiteralKeys(tn.keys) ELSE QuotedKeys(tn.keys)

\* variant: a reference is taken whether or not its key argument yields a key
NodeMatchesWithoutKeys(cmd, tn) ==
  /\ tn.expr \in {"Pick", "Omit"}
  /\ tn.nargs = 2
  /\ BaseOfNode(cmd, tn) # <<>>

NodeMatches(cmd, tn) ==
  /\ tn.expr \in {"Pick", "Omit"}
  /\ tn.nargs = 2
  /\ BaseOfNode(cmd, tn) # <<>>
  /\ KeysOfNode(cmd, tn) # <<>>

NoHeritage == [kind |-> "none", base |-> <<>>, keys |-> <<>>]

\* the heritage scan of generateClassFromInterface / generateFactoryFromInterface:
\* the first type node, in clause order, that matches
DetectHeritage(cmd, iface) ==
  LET hits == {i \in 1..Len(iface.heritage) : NodeMatches(cmd, iface.heritage[i])}
  IN IF hits = {} THEN NoHeritage
     ELSE LET i == CHOOSE k \in hits : \A j \in hits : k <= j
              tn == iface.heritage[i]
          IN [kind |-> IF tn.expr = "Pick" THEN "pick" ELSE "omit",
              base |-> BaseOfNode(cmd, tn),
              keys |-> KeysOfNode(cmd, tn)]

(***************************************************************************)
(* Pick / Omit policy.                                                     *)
(***************************************************************************)
\* variant: the picked fields follow the order of the keys
PickPropsInKeyOrder(baseProps, keyList) ==
  Concat([i \in 1..Len(keyList) |->
            SelectSeq(baseProps, LAMBDA p : p.name = keyList[i])])

\* baseProps.filter(p => pickSet.has(p.name))
PickProps(baseProps, keyList) ==
  SelectSeq(baseProps, LAMBDA p : p.name \in Range(keyList))

\* keyList.filter(k => !baseProps.some(p => p.name === k))
InvalidPickKeys(baseProps, keyList) ==
  SelectSeq(keyList, LAMBDA k : \A i \in 1..Len(baseProps) : baseProps[i].name # k)

\* Map.prototype.set keyed by name: replace in place or append
MapSetByName(m, p) ==
  IF \E i \in 1..Len(m) : m[i].name = p.name
  THEN [i \in 1..Len(m) |-> IF m[i].name = p.name THEN p ELSE m[i]]
  ELSE Append(m, p)

RECURSIVE MapSetAll(_, _)
MapSetAll(m, ps) ==
  IF ps = <<>> THEN m ELSE MapSetAll(MapSetByName(m, Head(ps)), Tail(ps))

\* variant: the own fields are all appended after the inherited ones
OmitPropsOwnAppended(baseProps, keyList, ownProps) ==
  LET afterOmit == SelectSeq(baseProps, LAMBDA p : p.name \notin Range(keyList))
      ownNames == {ownProps[i].name : i \in 1..Len(ownProps)}
  IN SelectSeq(afterOmit, LAMBDA p : p.name \notin ownNames) \o ownProps

\* new Map(afterOmit.map(p => [p.name, p])); for (op of ownProps) map.set(op.name, op);
\* Array.from(map.values())
OmitProps(baseProps, keyList, ownProps) ==
  LET afterOmit == SelectSeq(baseProps, LAMBDA p : p.name \notin Range(keyList))
  IN MapSetAll(MapSetAll(<<>>, afterOmit), ownProps)

(***************************************************************************)
(* Messages shown to the user.                                             *)
(***************************************************************************)
Msg(level, kind, names) == [level |-> level, kind |-> kind, names |-> names]
Err(kind) == Msg("error", kind, <<>>)

(***************************************************************************)
(* The generation request: the document, the cursor line, the settings.    *)
(***************************************************************************)
CurrentPath == Path(<<"cur">>, ".ts")

\* line.match(/interface\s+(\w+)/) resp. /type\s+(\w+)/ : "" when no match
LineMatches == req.lineName # ""

\* sourceFile.getInterface(interfaceName)
TargetIface == GetDecl(req.doc, "interface", <<req.lineName>>)

\* sourceFile.getTypeAlias(typeName)
TargetAlias == GetDecl(req.doc, "type", <<req.lineName>>)

(***************************************************************************)
(* findDeclNearby as a cursor over the awaited probes.  tier 2 walks the   *)
(* relative imports and their candidates, tier 3 the same-directory        *)
(* guesses, tier 0 is `return undefined`.                                  *)
(***************************************************************************)
Cursor(t, i, c) == [tier |-> t, imp |-> i, cand |-> c]

Idle == Cursor(0, 0, 0)

\* const simple = name.split(".").pop()!
Simple(name) == SplitPop(name)

\* variant: the relative imports are taken from the last one
NextRelImportLast(i) ==
  LET rel == {j \in i..Len(req.doc.imports) : req.doc.imports[j].rel}
  IN IF rel = {} THEN 0 ELSE CHOOSE j \in rel : \A k \in rel : j >= k

\* the next import at index >= i whose specifier starts with "."
NextRelImport(i) ==
  LET rel == {j \in i..Len(req.doc.imports) : req.doc.imports[j].rel}
  IN IF rel = {} THEN 0 ELSE CHOOSE j \in rel : \A k \in rel : j <= k

Tier3Start == Cursor(3, 0, 1)

ImportStart(i) ==
  LET j == NextRelImport(i) IN IF j = 0 THEN Tier3Start ELSE Cursor(2, j, 1)

\* the path an awaited fileExists is probing
CursorPath(c, simple) ==
  IF c.tier = 2 THEN Candidates(req.doc.imports[c.imp])[c.cand]
  ELSE Guesses(simple)[c.cand]

\* fileExists answered false
AfterMiss(c) ==
  IF c.tier = 2
  THEN IF c.cand < Len(CandidateExts) THEN Cursor(2, c.imp, c.cand + 1)
       ELSE ImportStart(c.imp + 1)
  ELSE IF c.cand < Len(GuessExts) THEN Cursor(3, 0, c.cand + 1) ELSE Idle

\* variant: a file that does not declare the name is followed by the next
\* candidate of the same specifier
AfterNoDeclNextCandidate(c) ==
  IF c.tier = 2
  THEN IF c.cand < Len(CandidateExts) THEN Cursor(2, c.imp, c.cand + 1)
       ELSE ImportStart(c.imp + 1)
  ELSE IF c.cand < Len(GuessExts) THEN Cursor(3, 0, c.cand + 1) ELSE Idle

\* the file was loaded and does not declare the name
AfterNoDecl(c) ==
  IF c.tier = 2 THEN ImportStart(c.imp + 1)
  ELSE IF c.cand < Len(GuessExts) THEN Cursor(3, 0, c.cand + 1) ELSE Idle

(***************************************************************************)
(* The synchronous tail of generateClassFromInterface and                  *)
(* generateFactoryFromInterface once the base lookup has returned.         *)
(***************************************************************************)
Outcome(f, c, p, s, next) ==
  [found |-> f, cur |-> c, properties |-> p, shown |-> s, pc |-> next]

\* variant: an empty field list is generated like any other
CheckPropertiesUnguarded(f, props) == Outcome(f, Idle, props, <<>>, "write")

\* if (!properties.length) return showErrorMessage("No properties found ...")
CheckProperties(f, props) ==
  IF props = <<>>
  THEN Outcome(f, Idle, props, <<Err("NoProperties")>>, "done")
  ELSE Outcome(f, Idle, props, <<>>, "write")

\* variant: the own fields are merged into a Pick as they are into an Omit
ResolveShapeMergingOwn(h, f) ==
  IF f.decl.kind = "none"
  THEN Outcome(f, Idle, <<>>, <<Err("BaseNotFoundNearby")>>, "done")
  ELSE LET baseProps == getPropsFromDecl(f.decl)
           ownProps == PropsOfMembers(TargetIface.members)
       IN IF h.kind = "pick"
          THEN LET picked == MapSetAll(PickProps(baseProps, h.keys), ownProps)
                   invalid == InvalidPickKeys(baseProps, h.keys)
               IN IF invalid # <<>>
                  THEN Outcome(f, Idle, picked,
                               <<Msg("error", "InvalidPick", invalid)>>, "done")
                  ELSE CheckProperties(f, picked)
          ELSE CheckProperties(f, OmitProps(baseProps, h.keys, ownProps))

\* the Pick / Omit branch once the base lookup has returned
ResolveShape(h, f) ==
  IF f.decl.kind = "none"
  THEN Outcome(f, Idle, <<>>, <<Err("BaseNotFoundNearby")>>, "done")
  ELSE LET baseProps == getPropsFromDecl(f.decl)
       IN IF h.kind = "pick"
          THEN LET picked == PickProps(baseProps, h.keys)
                   invalid == InvalidPickKeys(baseProps, h.keys)
               IN IF invalid # <<>>
                  THEN Outcome(f, Idle, picked,
                               <<Msg("error", "InvalidPick", invalid)>>, "done")
                  ELSE CheckProperties(f, picked)
          ELSE CheckProperties(f,
                 OmitProps(baseProps, h.keys, PropsOfMembers(TargetIface.members)))

\* variant: a search that gives up falls back to any file that declares the name
ContinueSearchAnywhere(h, c) ==
  LET declaring == {p \in DOMAIN disk :
                      fileExists(p) /\ LookupDecl(disk[p].sf, Simple(h.base)).kind # "none"}
  IN IF c.tier = 0
     THEN IF declaring = {} THEN ResolveShape(h, NoFound)
          ELSE LET p == CHOOSE q \in declaring : TRUE
               IN ResolveShape(h, [path |-> p,
                                   decl |-> LookupDecl(disk[p].sf, Simple(h.base))])
     ELSE Outcome(found, c, properties, shown, "probe")

\* the search moves on to cursor c, or gives up
ContinueSearch(h, c) ==
  IF c.tier = 0 THEN ResolveShape(h, NoFound)
  ELSE Outcome(found, c, properties, shown, "probe")

\* sf.getInterface(simple) / sf.getTypeAlias(simple) on a loaded file
LookupThen(h, sf, p) ==
  LET d == LookupDecl(sf, Simple(h.base))
  IN IF d.kind # "none" THEN ResolveShape(h, [path |-> p, decl |-> d])
     ELSE ContinueSearch(h, AfterNoDecl(cur))

\* variant: the current file is not consulted
findDeclNearbySkipCurrent(h) == ContinueSearch(h, ImportStart(1))

\* findDeclNearby up to its first await
findDeclNearby(h) ==
  LET d == LookupDecl(req.doc, Simple(h.base))
  IN IF d.kind # "none" THEN ResolveShape(h, [path |-> CurrentPath, decl |-> d])
     ELSE ContinueSearch(h, ImportStart(1))

Apply(o) ==
  /\ found' = o.found
  /\ cur' = o.cur
  /\ properties' = o.properties
  /\ shown' = o.shown
  /\ pc' = o.pc

(***************************************************************************)
(* Actions of the class / factory commands.                                *)
(***************************************************************************)
\* generateClassFromInterface / generateFactoryFromInterface up to the first await
GenerateFromInterface ==
  /\ pc = "start"
  /\ req.cmd \in {"class", "factory"}
  /\ IF ~LineMatches
     THEN her' = her /\ Apply(Outcome(NoFound, Idle, <<>>, <<Err("NoName")>>, "done"))
     ELSE IF TargetIface.kind = "none"
     THEN her' = her
          /\ Apply(Outcome(NoFound, Idle, <<>>, <<Err("InterfaceNotFound")>>, "done"))
     ELSE LET h == DetectHeritage(req.cmd, TargetIface)
          IN /\ her' = h
             /\ IF h.kind # "none"
                THEN Apply(findDeclNearby(h))
                ELSE Apply(CheckProperties(NoFound, PropsOfMembers(TargetIface.members)))
  /\ UNCHANGED <<req, disk, project, probes, loads, written, edited>>
  /\ UNCHANGED viewVars
  /\ UNCHANGED hostVars

\* one awaited fileExists(c) of resolveModuleToFsPath or of the guess loop,
\* followed, when the file exists, by the synchronous part of ensureFileLoaded
FileExistsProbe ==
  /\ pc = "probe"
  /\ LET p == CursorPath(cur, Simple(her.base))
     IN /\ probes' = Append(probes, p)
        /\ IF ~fileExists(p) THEN Apply(ContinueSearch(her, AfterMiss(cur)))
           ELSE IF IsLoaded(p) THEN Apply(LookupThen(her, project[p].sf, p))
           ELSE Apply(Outcome(found, cur, properties, shown, "load"))
  /\ UNCHANGED <<req, disk, project, loads, her, written, edited>>
  /\ UNCHANGED viewVars
  /\ UNCHANGED hostVars

\* ensureFileLoaded after its awaited readFile: createSourceFile, then the lookup
EnsureFileLoaded ==
  /\ pc = "load"
  /\ LET p == CursorPath(cur, Simple(her.base))
         sf == disk[p].sf
     IN /\ loads' = Append(loads, p)
        /\ project' = [project EXCEPT ![p] = [loaded |-> TRUE, sf |-> sf]]
        /\ Apply(LookupThen(her, sf, p))
  /\ UNCHANGED <<req, disk, probes, her, written, edited>>
  /\ UNCHANGED viewVars
  /\ UNCHANGED hostVars

\* the artifact text is a function of the command, the name and the fields
Artifact == [cmd |-> req.cmd, name |-> req.lineName, fields |-> properties]

\* writeFileUtf8(target, content) or applyEdit(edit), then the information message
WriteArtifact ==
  /\ pc = "write"
  /\ req.cmd \in {"class", "factory", "factoryType", "classType"}
  /\ IF req.inNewFile
     THEN written' = Append(written, Artifact) /\ edited' = edited
     ELSE edited' = Append(edited, Artifact) /\ written' = written
  /\ shown' = Append(shown, Msg("info", "Generated", <<>>))
  /\ pc' = "done"
  /\ UNCHANGED <<req, disk, project, cur, probes, loads, her, found, properties>>
  /\ UNCHANGED viewVars
  /\ UNCHANGED hostVars

(***************************************************************************)
(* generateFactoryFromType: the alias text is matched by two regular       *)
(* expressions; decl.sel lists the Pick<..>/Omit<..> occurrences of the    *)
(* text that the expressions can match, in text order.                     *)
(***************************************************************************)
NoSel == [op |-> "none", base |-> <<>>, keys |-> <<>>]

\* /Omit<...>/.exec(typeText), /Pick<...>/.exec(typeText): the first occurrence
FirstSel(sel, op) ==
  LET hits == SelectSeq(sel, LAMBDA m : m.op = op)
  IN IF hits = <<>> THEN NoSel ELSE hits[1]

\* new Set(parseKeyList(rawKeys)), in insertion order
RECURSIVE Dedupe(_)
Dedupe(ks) ==
  IF ks = <<>> THEN <<>>
  ELSE LET front == Dedupe(SubSeq(ks, 1, Len(ks) - 1))
       IN SetAdd(front, ks[Len(ks)])

\* (omitMatch ?? pickMatch)!
ChosenMatch(omitMatch, pickMatch) == IF omitMatch.op # "none" THEN omitMatch ELSE pickMatch

\* if (pickMatch) { pick policy } else { omit policy }
UsesPickPolicy(omitMatch, pickMatch) == pickMatch.op # "none"

FactoryFromTypeOutcome ==
  IF ~LineMatches THEN Outcome(NoFound, Idle, <<>>, <<Err("NoName")>>, "done")
  ELSE IF TargetAlias.kind = "none"
  THEN Outcome(NoFound, Idle, <<>>, <<Err("TypeNotFound")>>, "done")
  ELSE LET omitMatch == FirstSel(TargetAlias.sel, "Omit")
           pickMatch == FirstSel(TargetAlias.sel, "Pick")
       IN IF omitMatch.op # "none" \/ pickMatch.op # "none"
          THEN LET m == ChosenMatch(omitMatch, pickMatch)
                   keys == Dedupe(m.keys)
                   simpleBase == SplitPop(m.base)
                   baseIface == GetDecl(req.doc, "interface", simpleBase)
                   baseType == GetDecl(req.doc, "type", simpleBase)
                   f == [path |-> CurrentPath,
                         decl |-> IF baseIface.kind # "none" THEN baseIface ELSE baseType]
               IN IF baseIface.kind = "none" /\ baseType.kind = "none"
                  THEN Outcome(NoFound, Idle, <<>>, <<Err("BaseNotInFile")>>, "done")
                  ELSE IF baseIface.kind = "none" /\ baseType.alias = "throws"
                  THEN Outcome(f, Idle, <<>>, <<Err("Exception")>>, "done")
                  ELSE LET baseProps == IF baseIface.kind # "none"
                                        THEN PropsOfMembers(baseIface.members)
                                        ELSE CheckerProps(baseType.members)
                       IN IF UsesPickPolicy(omitMatch, pickMatch)
                          THEN LET picked == PickProps(baseProps, keys)
                                   invalid == InvalidPickKeys(baseProps, keys)
                               IN IF invalid # <<>>
                                  THEN Outcome(f, Idle, picked,
                                               <<Msg("error", "InvalidPick", invalid)>>,
                                               "done")
                                  ELSE CheckProperties(f, picked)
                          ELSE CheckProperties(f,
                                 SelectSeq(baseProps,
                                           LAMBDA q : q.name \notin Range(keys)))
          ELSE IF TargetAlias.alias = "throws"
          THEN Outcome(NoFound, Idle, <<>>, <<Err("Exception")>>, "done")
          ELSE CheckProperties(NoFound, CheckerProps(TargetAlias.members))

\* generateFactoryFromType up to its only await (the write)
GenerateFactoryFromType ==
  /\ pc = "start"
  /\ req.cmd = "factoryType"
  /\ Apply(FactoryFromTypeOutcome)
  /\ UNCHANGED <<req, disk, project, probes, loads, her, written, edited>>
  /\ UNCHANGED viewVars
  /\ UNCHANGED hostVars

(***************************************************************************)
(* generateClassFromType: only Omit<..> is matched in the alias text, and  *)
(* its base is looked for in the current file alone; without a match the   *)
(* checker's properties of the alias are the fields.                       *)
(***************************************************************************)
ClassFromTypeOutcome ==
  IF ~LineMatches THEN Outcome(NoFound, Idle, <<>>, <<Err("NoName")>>, "done")
  ELSE IF TargetAlias.kind = "none"
  THEN Outcome(NoFound, Idle, <<>>, <<Err("TypeNotFound")>>, "done")
  ELSE LET omitMatch == FirstSel(TargetAlias.sel, "Omit")
       IN IF omitMatch.op # "none"
          THEN LET omitted == Range(omitMatch.keys)
                   simpleBase == SplitPop(omitMatch.base)
                   baseIface == GetDecl(req.doc, "interface", simpleBase)
                   baseTypeAlias == GetDecl(req.doc, "type", simpleBase)
                   f == [path |-> CurrentPath,
                         decl |-> IF baseIface.kind # "none" THEN baseIface
                                  ELSE baseTypeAlias]
               IN IF baseIface.kind = "none" /\ baseTypeAlias.kind = "none"
                  THEN Outcome(NoFound, Idle, <<>>, <<Err("BaseNotInFile")>>, "done")
                  ELSE IF baseIface.kind = "none" /\ baseTypeAlias.alias = "throws"
                  THEN Outcome(f, Idle, <<>>, <<Err("Exception")>>, "done")
                  ELSE LET baseProps == IF baseIface.kind # "none"
                                        THEN PropsOfMembers(baseIface.members)
                                        ELSE CheckerProps(baseTypeAlias.members)
                       IN CheckProperties(f, SelectSeq(baseProps,
                                                       LAMBDA q : q.name \notin omitted))
          ELSE IF TargetAlias.alias = "throws"
          THEN Outcome(NoFound, Idle, <<>>, <<Err("Exception")>>, "done")
          ELSE CheckProperties(NoFound, CheckerProps(TargetAlias.members))

\* generateClassFromType up to its only await (the write)
GenerateClassFromType ==
  /\ pc = "start"
  /\ req.cmd = "classType"
  /\ Apply(ClassFromTypeOutcome)
  /\ UNCHANGED <<req, disk, project, probes, loads, her, written, edited>>
  /\ UNCHANGED viewVars
  /\ UNCHANGED hostVars

(***************************************************************************)
(* Constructors of the explored inputs.                                    *)
(***************************************************************************)
Mem(n, t) == [name |-> n, tn |-> t, chk |-> t, q |-> FALSE, sig |-> "prop"]
OptMem(n, t) == [name |-> n, tn |-> t, chk |-> t, q |-> TRUE, sig |-> "prop"]
\* a property without a type annotation: the checker answers t, or throws
Inferred(n, t) == [name |-> n, tn |-> NoAnnot, chk |-> t, q |-> FALSE, sig |-> "prop"]

Iface(n, ms, h) ==
  [kind |-> "interface", name |-> n, alias |-> "none", members |-> ms,
   heritage |-> h, sel |-> <<>>]

Alias(n, shape, ms, sel) ==
  [kind |-> "type", name |-> n, alias |-> shape, members |-> ms,
   heritage |-> <<>>, sel |-> sel]

TypeRef(name) == [ref |-> TRUE, name |-> name, targs |-> <<>>]
Wrapped(w, tn) == [ref |-> TRUE, name |-> <<w>>, targs |-> <<tn>>]

HNode(expr, base, keys) == [expr |-> expr, nargs |-> 2, base |-> base, keys |-> keys]

KeyLit(k) == [lit |-> TRUE, quoted |-> <<k>>]
\* a key member that is no string literal, such as keyof X
KeyOther == [lit |-> FALSE, quoted |-> <<>>]

Sel(op, base, keys) == [op |-> op, base |-> base, keys |-> keys]

SourceFile(decls, imports) == [decls |-> decls, imports |-> imports]
EmptySf == SourceFile(<<>>, <<>>)

RelSpec(stem) == [rel |-> TRUE, stem |-> <<stem>>]
BareSpec(stem) == [rel |-> FALSE, stem |-> <<stem>>]

File(sf) == [exists |-> TRUE, sf |-> sf]
NoFile == [exists |-> FALSE, sf |-> EmptySf]
NotLoaded == [loaded |-> FALSE, sf |-> EmptySf]

Request(cmd, inNewFile, lineName, doc) ==
  [cmd |-> cmd, inNewFile |-> inNewFile, lineName |-> lineName, doc |-> doc]

BaseName == <<"Base">>
QualifiedBaseName == <<"NS", ".", "Base">>

(***************************************************************************)
(* File graphs of the resolver runs.                                       *)
(***************************************************************************)
DeepPath == Path(<<"deep">>, ".ts")
LibPath == Path(<<"lib">>, ".ts")

\* the paths whose existence and content vary
VaryingPaths ==
  {Path(<<"m">>, ".ts"), Path(<<"m">>, ".tsx"), Path(<<"m">>, ".d.ts"),
   Path(<<"m">>, "/index.ts"),
   Path(<<"Base">>, ".ts"), Path(<<"Base">>, ".tsx"), Path(<<"Base">>, ".d.ts"),
   Path(<<"Base">>, "/index.tsx")}

AllPaths == VaryingPaths \cup {DeepPath, LibPath}

FileKinds == {"empty", "iface", "alias"}

BaseMembers == <<Mem("a", "string"), OptMem("b", "number"), Mem("c", "boolean")>>

\* a file of each kind; an "empty" file declares another name and imports
\* ./deep, which declares the base
FileOfKind(k) ==
  IF k = "iface" THEN File(SourceFile(<<Iface("Base", BaseMembers, <<>>)>>, <<>>))
  ELSE IF k = "alias"
  THEN File(SourceFile(<<Alias("Base", "literal", BaseMembers, <<>>)>>, <<>>))
  ELSE File(SourceFile(<<Iface("Other", BaseMembers, <<>>)>>, <<RelSpec("deep")>>))

DeclaringFile == File(SourceFile(<<Iface("Base", BaseMembers, <<>>)>>, <<>>))

DiskOf(kinds) ==
  [p \in AllPaths |->
     IF p \in DOMAIN kinds THEN FileOfKind(kinds[p])
     ELSE IF p \in {DeepPath, LibPath} THEN DeclaringFile
     ELSE NoFile]

ResolveDisks ==
  {DiskOf(kinds) : kinds \in UNION {[S -> FileKinds] :
                                      S \in {T \in SUBSET VaryingPaths :
                                               Cardinality(T) <= MaxFiles}}}

\* getProject() without a workspace folder loads nothing; with one it loads
\* every file of the folder
ProjectsOf(d) ==
  {[p \in AllPaths |-> NotLoaded],
   [p \in AllPaths |-> IF d[p].exists THEN [loaded |-> TRUE, sf |-> d[p].sf]
                       ELSE NotLoaded]}

ImportLists ==
  {<<>>, <<RelSpec("m")>>, <<BareSpec("lib"), RelSpec("m")>>,
   <<RelSpec("m"), RelSpec("Base")>>, <<RelSpec("Base"), RelSpec("m")>>}

\* what the current file declares besides the target interface
CurrentExtras ==
  {<<>>,
   <<Iface("Base", BaseMembers, <<>>)>>,
   <<Alias("Base", "literal", BaseMembers, <<>>), Iface("Base", BaseMembers, <<>>)>>}

PickA(baseArg) == <<HNode("Pick", baseArg, <<KeyLit("a")>>)>>

ResolveRequests ==
  {Request(c[1], TRUE, "Target",
           SourceFile(<<Iface("Target", <<>>, PickA(TypeRef(c[2])))>> \o extra, imports)) :
     c \in {<<"class", BaseName>>, <<"class", QualifiedBaseName>>,
            <<"factory", BaseName>>},
     extra \in CurrentExtras, imports \in ImportLists}

EmptySplit == [top |-> <<>>, nested |-> <<>>, exclusions |-> <<>>,
               optionalTop |-> <<>>, optionalNested |-> <<>>]

\* the surviving selection of the view validated last (index vi)
EmptyFinal == [vi |-> 0, top |-> <<>>, nested |-> <<>>, exclusions |-> <<>>,
               optionalTop |-> <<>>, optionalNested |-> <<>>, invalid |-> <<>>]

(***************************************************************************)
(* The declaration store (utils/project.ts) and the host's file events.    *)
(***************************************************************************)
MaxEvents == 2

\* the calls of a run: one can be made before a notification, one after it
Calls == {"earlier", "later"}

\* _project = undefined: no file is loaded in it
NoProject == <<>>

NoEvents == [changes |-> <<>>, delivered |-> 0]

StorePaths == {CurrentPath, Path(<<"m">>, ".ts")}

VersionTypes == <<"string", "number", "boolean", "Date", "bigint">>

\* the text a file holds after the n-th change of the disk (0: at the start)
Content(n) ==
  File(SourceFile(<<Iface("Base", <<Mem("a", VersionTypes[n + 1])>>, <<>>)>>, <<>>))

\* the text of the document's buffer
DocText == SourceFile(<<Iface("Base", <<Mem("a", "buffer")>>, <<>>)>>, <<>>)

DocVersions == {1, 2}

\* doc.getText() at a version of the document: an edit changes the text
DocTextAt(version) ==
  IF version = 1 THEN DocText
  ELSE SourceFile(<<Iface("Base", <<Mem("a", "edited")>>, <<>>)>>, <<>>)

\* getProject() when _project is undefined: with a tsconfig or a workspace
\* folder every file on disk is added, without one none is
NewProject(d, folder) ==
  [p \in DOMAIN d |-> IF folder /\ d[p].exists THEN [loaded |-> TRUE, sf |-> d[p].sf]
                      ELSE NotLoaded]

getProject == IF project = NoProject THEN NewProject(disk, req.folder) ELSE project

\* _project = undefined, _sfCache left as it is
invalidateProjectKeepsCache == [project |-> NoProject, sfCache |-> sfCache]

\* _project = undefined; _sfCache.clear();
invalidateProject == [project |-> NoProject, sfCache |-> <<>>]

Lookup(kind, p, at, data, result) ==
  [kind |-> kind, path |-> p, pc |-> at, own |-> TRUE, data |-> data,
   seen |-> events.delivered, result |-> result]

\* a create, change or delete of a watched file; the host queues its notification
FileChanged ==
  /\ req.cmd = "lookup"
  /\ Len(events.changes) < MaxEvents
  /\ \E p \in StorePaths, delete \in BOOLEAN :
       /\ delete => disk[p].exists
       /\ disk' = [disk EXCEPT ![p] = IF delete THEN NoFile
                                      ELSE Content(Len(events.changes) + 1)]
       /\ events' = [events EXCEPT
                       !.changes = Append(@, [path |-> p, before |-> disk[p]])]
  /\ UNCHANGED <<req, project, sfCache, lookups, shown, written, edited, pc, document>>
  /\ UNCHANGED <<resolveVars, viewVars>>

\* the handler of the watcher's create / change / delete event: it calls
\* invalidateProject(); a project captured by a call in flight is no longer
\* the shared one
OnDidChangeFile ==
  /\ req.cmd = "lookup"
  /\ events.delivered < Len(events.changes)
  /\ events' = [events EXCEPT !.delivered = @ + 1]
  /\ project' = invalidateProject.project
  /\ sfCache' = invalidateProject.sfCache
  /\ lookups' = [i \in 1..Len(lookups) |-> [lookups[i] EXCEPT !.own = FALSE]]
  /\ UNCHANGED <<req, disk, shown, written, edited, pc, document>>
  /\ UNCHANGED <<resolveVars, viewVars>>

\* getSourceFileFromDocument(doc) for the document of CurrentPath; the call
\* records the text of the document it was given as its data
GetSourceFileFromDocument ==
  /\ req.cmd = "lookup"
  /\ Len(lookups) < Cardinality(Calls)
  /\ \E version \in DocVersions :
       LET hit == CurrentPath \in DOMAIN sfCache
                  /\ sfCache[CurrentPath].version = version
           pr == getProject
           text == DocTextAt(version)
           sf == IF pr[CurrentPath].loaded THEN text
                 ELSE IF fileExists(CurrentPath) THEN disk[CurrentPath].sf
                 ELSE text
       IN IF hit
          THEN /\ lookups' = Append(lookups, Lookup("doc", CurrentPath, "done", File(text),
                                                    sfCache[CurrentPath].sf))
               /\ UNCHANGED <<project, sfCache>>
          ELSE /\ project' = [pr EXCEPT ![CurrentPath] = [loaded |-> TRUE, sf |-> sf]]
               /\ sfCache' = [q \in DOMAIN sfCache \cup {CurrentPath} |->
                                IF q = CurrentPath THEN [version |-> version, sf |-> sf]
                                ELSE sfCache[q]]
               /\ lookups' = Append(lookups, Lookup("doc", CurrentPath, "done", File(text), sf))
  /\ UNCHANGED <<req, disk, events, shown, written, edited, pc, document>>
  /\ UNCHANGED <<resolveVars, viewVars>>

\* ensureFileLoaded(fsPath) up to its await: getProject(), getSourceFile
EnsureFileLoadedBegin ==
  /\ req.cmd = "lookup"
  /\ Len(lookups) < Cardinality(Calls)
  /\ \E p \in StorePaths :
       LET pr == getProject
       IN /\ project' = pr
          /\ lookups' = Append(lookups,
               IF pr[p].loaded THEN Lookup("file", p, "done", NoFile, pr[p].sf)
               ELSE Lookup("file", p, "read", NoFile, EmptySf))
  /\ UNCHANGED <<req, disk, events, sfCache, shown, written, edited, pc, document>>
  /\ UNCHANGED <<resolveVars, viewVars>>

\* vscode.workspace.fs.readFile settles: with the bytes on disk, or by
\* rejecting when there is no file
ReadFileSettles ==
  /\ req.cmd = "lookup"
  /\ \E i \in 1..Len(lookups) :
       LET l == lookups[i]
       IN /\ l.pc = "read"
          /\ lookups' = [lookups EXCEPT ![i] =
               IF fileExists(l.path) THEN [l EXCEPT !.pc = "resume", !.data = disk[l.path]]
               ELSE [l EXCEPT !.pc = "failed"]]
  /\ UNCHANGED <<req, disk, project, events, sfCache, shown, written, edited, pc, document>>
  /\ UNCHANGED <<resolveVars, viewVars>>

\* ensureFileLoaded after its await: createSourceFile on the project it captured
EnsureFileLoadedEnd ==
  /\ req.cmd = "lookup"
  /\ \E i \in 1..Len(lookups) :
       LET l == lookups[i]
       IN /\ l.pc = "resume"
          /\ lookups' = [lookups EXCEPT ![i] = [l EXCEPT !.pc = "done",
                                                         !.result = l.data.sf]]
          /\ project' = IF l.own
                        THEN [project EXCEPT ![l.path] = [loaded |-> TRUE, sf |-> l.data.sf]]
                        ELSE project
  /\ UNCHANGED <<req, disk, events, sfCache, shown, written, edited, pc, document>>
  /\ UNCHANGED <<resolveVars, viewVars>>

StoreDisks ==
  {[p \in StorePaths |-> IF p \in S THEN Content(0) ELSE NoFile] : S \in SUBSET StorePaths}

StoreRequest(folder) == [cmd |-> "lookup", folder |-> folder, doc |-> DocText]

(***************************************************************************)
(* syncClassWithInterfaceProps (commands/classEdits.ts).  The class text   *)
(* is the character after its open brace (gap), the members between the    *)
(* braces (body) and what follows the close brace (after).                 *)
(***************************************************************************)
MaxRuns == 2

PropItem(p) == [k |-> "prop", name |-> p.name, type |-> p.type, body |-> <<>>]
\* a constructor; body lists the names x whose `this.x` its body text holds
CtorItem(body) == [k |-> "ctor", name |-> "", type |-> "", body |-> body]
\* a statement `this.x = props.x` that is not inside a constructor body
StrayItem(p) == [k |-> "stray", name |-> p.name, type |-> "", body |-> <<>>]

ClassText(gap, body) == [gap |-> gap, body |-> body, after |-> <<>>]
NoClass == ClassText("none", <<>>)

\* classDecl.getProperties().map(p => p.getName())
classPropNames(doc) == {doc.body[i].name : i \in {j \in 1..Len(doc.body) : doc.body[j].k = "prop"}}

\* classDecl.getConstructors()
Constructors(doc) == SelectSeq(doc.body, LAMBDA it : it.k = "ctor")

\* ctor?.getBodyText() ?? "", as the names x with `this.x` in it
ctorBodyText(doc) == IF Constructors(doc) = <<>> THEN <<>> ELSE Constructors(doc)[1].body

missingDecls(doc) ==
  SelectSeq(req.ifaceProps, LAMBDA p : p.name \notin classPropNames(doc))

missingAssignments(doc) ==
  SelectSeq(req.ifaceProps, LAMBDA p : p.name \notin Range(ctorBodyText(doc)))

\* the insertions of the one WorkspaceEdit, applied to the text they were
\* computed on: the declarations one character after the open brace, the
\* constructor before the close brace, the assignments at the end of the
\* body of the constructor that the parsed class has, or else before the
\* close brace after the other texts inserted there
ApplyInsertions(doc) ==
  LET decls == [i \in 1..Len(missingDecls(doc)) |-> PropItem(missingDecls(doc)[i])]
      names == [i \in 1..Len(missingAssignments(doc)) |-> missingAssignments(doc)[i].name]
      strays == [i \in 1..Len(missingAssignments(doc)) |->
                   StrayItem(missingAssignments(doc)[i])]
      inside == doc.gap # "close"
      ctorAt == CHOOSE i \in 1..Len(doc.body) : doc.body[i].k = "ctor"
                  /\ \A j \in 1..(i - 1) : doc.body[j].k # "ctor"
      body == IF Constructors(doc) = <<>>
              THEN doc.body \o <<CtorItem(<<>>)>> \o strays
              ELSE [doc.body EXCEPT ![ctorAt] = CtorItem(doc.body[ctorAt].body \o names)]
  IN [gap |-> IF body # doc.body \/ (inside /\ decls # <<>>) THEN "newline" ELSE doc.gap,
      body |-> IF inside THEN decls \o body ELSE body,
      after |-> IF inside THEN doc.after ELSE decls \o doc.after]

\* one invocation of the command on the current text of the document
SyncClassWithInterfaceProps ==
  /\ req.cmd = "sync"
  /\ Len(shown) < MaxRuns
  /\ IF req.state # "found"
     THEN /\ shown' = Append(shown, Err(req.state))
          /\ UNCHANGED <<document, edited>>
     ELSE IF /\ missingDecls(document) = <<>>
             /\ missingAssignments(document) = <<>>
             /\ Constructors(document) # <<>>
     THEN /\ shown' = Append(shown, Msg("info", "NothingMissing", <<>>))
          /\ UNCHANGED <<document, edited>>
     ELSE /\ document' = ApplyInsertions(document)
          /\ edited' = Append(edited, [decls |-> missingDecls(document),
                                       assignments |-> missingAssignments(document)])
          /\ shown' = Append(shown, Msg("info", "Added", <<>>))
  /\ UNCHANGED <<req, disk, project, pc, written, sfCache, events, lookups>>
  /\ UNCHANGED <<resolveVars, viewVars>>

SyncProp(n, t) == [name |-> n, type |-> t]

IfacePropLists ==
  {<<>>, <<SyncProp("a", "string")>>, <<SyncProp("a", "string"), SyncProp("b", "number")>>}

ClassPropLists ==
  {<<>>, <<SyncProp("a", "string")>>, <<SyncProp("b", "number")>>,
   <<SyncProp("c", "Date"), SyncProp("a", "string")>>,
   <<SyncProp("a", "string"), SyncProp("b", "number")>>}

\* the constructors of the explored classes: none, or one whose body text
\* holds `this.x` for these x (`ab` is a longer name that starts like `a`)
CtorBodies == {<<>>, <<"a">>, <<"b">>, <<"ab">>, <<"b", "a">>}

ClassTexts ==
  {ClassText("close", <<>>)}
  \cup {ClassText("newline", [i \in 1..Len(ps) |-> PropItem(ps[i])]) : ps \in ClassPropLists}
  \cup {ClassText("newline", [i \in 1..Len(ps) |-> PropItem(ps[i])] \o <<CtorItem(b)>>) :
          ps \in ClassPropLists, b \in CtorBodies}

\* state: the class and its interface were found, or the error that ends the
\* command first
SyncRequest(state, ifaceProps, doc) ==
  [cmd |-> "sync", state |-> state, ifaceProps |-> ifaceProps, doc |-> doc]

SyncRequests ==
  {SyncRequest("found", ps, doc) : ps \in IfacePropLists, doc \in ClassTexts}
  \cup {SyncRequest(st, <<>>, ClassText("newline", <<>>)) :
          st \in {"NoClass", "NoImplements", "InterfaceNotFound"}}

InitCommon ==
  /\ pc = "start"
  /\ cur = Idle
  /\ probes = <<>>
  /\ loads = <<>>
  /\ her = NoHeritage
  /\ found = NoFound
  /\ properties = <<>>
  /\ shown = <<>>
  /\ written = <<>>
  /\ edited = <<>>
  /\ split = EmptySplit
  /\ final = EmptyFinal
  /\ vi = 0
  /\ ti = 0
  /\ out = <<>>
  /\ warnings = <<>>
  /\ generated = 0
  /\ sfCache = <<>>
  /\ events = NoEvents
  /\ lookups = <<>>
  /\ document = NoClass

InitResolve ==
  /\ req \in ResolveRequests
  /\ disk \in ResolveDisks
  /\ project \in ProjectsOf(disk)
  /\ InitCommon

NextResolve ==
  \/ GenerateFromInterface
  \/ FileExistsProbe
  \/ EnsureFileLoaded
  \/ WriteArtifact

SpecResolve == InitResolve /\ [][NextResolve]_vars

InitStore ==
  /\ req \in {StoreRequest(folder) : folder \in BOOLEAN}
  /\ disk \in StoreDisks
  /\ project = NoProject
  /\ InitCommon

NextStore ==
  \/ FileChanged
  \/ OnDidChangeFile
  \/ GetSourceFileFromDocument
  \/ EnsureFileLoadedBegin
  \/ ReadFileSettles
  \/ EnsureFileLoadedEnd

SpecStore == InitStore /\ [][NextStore]_vars

InitSync ==
  /\ req \in SyncRequests
  /\ disk = [p \in AllPaths |-> NoFile]
  /\ project = [p \in AllPaths |-> NotLoaded]
  /\ pc = "start"
  /\ cur = Idle
  /\ probes = <<>>
  /\ loads = <<>>
  /\ her = NoHeritage
  /\ found = NoFound
  /\ properties = <<>>
  /\ shown = <<>>
  /\ written = <<>>
  /\ edited = <<>>
  /\ split = EmptySplit
  /\ final = EmptyFinal
  /\ vi = 0
  /\ ti = 0
  /\ out = <<>>
  /\ warnings = <<>>
  /\ generated = 0
  /\ sfCache = <<>>
  /\ events = NoEvents
  /\ lookups = <<>>
  /\ document = req.doc

NextSync == SyncClassWithInterfaceProps

SpecSync == InitSync /\ [][NextSync]_vars

(***************************************************************************)
(* Inputs of the Pick / Omit runs.                                         *)
(***************************************************************************)
ShapeBaseMembers ==
  {<<>>,
   <<Mem("a", "string")>>,
   BaseMembers,
   <<Inferred("a", "string"), Inferred("b", Throws)>>}

OwnMemberLists ==
  {<<>>,
   <<Mem("c", "Date")>>,
   <<Mem("d", "string")>>,
   <<Mem("b", "string"), Mem("d", "string")>>,
   <<Mem("d", "string"), Mem("a", "Date")>>}

KeyPool == {KeyLit("a"), KeyLit("b"), KeyLit("zz"), KeyOther}
KeyLists == SeqsUpTo(KeyPool, MaxKeys)

\* a heritage type node that is neither Pick nor Omit
OtherNode == [expr |-> "Other", nargs |-> 0, base |-> TypeRef(<<"Other">>), keys |-> <<>>]
\* Pick<Base>: one type argument only
OneArgPick == [expr |-> "Pick", nargs |-> 1, base |-> TypeRef(BaseName), keys |-> <<>>]

Heritages ==
  {<<>>}
  \cup {<<HNode(op, TypeRef(BaseName), ks)>> : op \in {"Pick", "Omit"}, ks \in KeyLists}
  \cup {<<OtherNode, HNode("Pick", TypeRef(BaseName), <<KeyLit("a")>>)>>,
        <<HNode("Pick", TypeRef(BaseName), <<KeyOther>>),
          HNode("Omit", TypeRef(BaseName), <<KeyLit("a")>>)>>,
        <<OneArgPick, HNode("Omit", TypeRef(BaseName), <<KeyLit("b")>>)>>,
        <<HNode("Omit", TypeRef(BaseName), <<KeyLit("a")>>),
          HNode("Pick", TypeRef(BaseName), <<KeyLit("b")>>)>>,
        <<HNode("Omit", Wrapped("Readonly", TypeRef(BaseName)), <<KeyLit("b")>>)>>,
        <<HNode("Pick", Wrapped("Partial", Wrapped("Readonly", TypeRef(BaseName))),
                <<KeyLit("a")>>)>>,
        <<HNode("Pick", TypeRef(QualifiedBaseName), <<KeyLit("b"), KeyLit("a")>>)>>}

BaseLocations == {"interface", "literal", "ref", "throws", "import", "absent"}

\* the declarations of the current file besides the target
BaseInDoc(loc, ms) ==
  IF loc = "interface" THEN <<Iface("Base", ms, <<>>)>>
  ELSE IF loc \in {"literal", "ref", "throws"} THEN <<Alias("Base", loc, ms, <<>>)>>
  ELSE <<>>

ImportsFor(loc) == IF loc = "import" THEN <<RelSpec("m")>> ELSE <<>>

ShapeDisk(loc, ms) ==
  [p \in AllPaths |->
     IF loc = "import" /\ p = Path(<<"m">>, ".ts")
     THEN File(SourceFile(<<Iface("Base", ms, <<>>)>>, <<>>))
     ELSE NoFile]

\* a request together with the members of the base it refers to
ShapeCases ==
  {[r |-> Request(cmd, nf, "Target",
                  SourceFile(<<Iface("Target", own, h)>> \o BaseInDoc(loc, ms),
                             ImportsFor(loc))),
    d |-> ShapeDisk(loc, ms)] :
     cmd \in {"class", "factory"}, nf \in BOOLEAN, own \in OwnMemberLists,
     h \in Heritages, loc \in BaseLocations, ms \in ShapeBaseMembers}

RawKeyLists == SeqsUpTo({"a", "b", "zz"}, MaxKeys)

AliasSelections ==
  {<<>>}
  \cup {<<Sel(op, BaseName, ks)>> : op \in {"Pick", "Omit"}, ks \in RawKeyLists}
  \cup {<<Sel("Pick", BaseName, <<"zz">>), Sel("Omit", BaseName, <<"a">>)>>,
        <<Sel("Omit", BaseName, <<"a">>), Sel("Pick", BaseName, <<"a", "b">>)>>,
        <<Sel("Pick", QualifiedBaseName, <<"a">>), Sel("Omit", <<"Other">>, <<"b">>)>>}

TypeCases ==
  {[r |-> Request("factoryType", nf, "Target",
                  SourceFile(<<Alias("Target", shape, own, sel)>> \o BaseInDoc(loc, ms),
                             <<>>)),
    d |-> ShapeDisk("absent", ms)] :
     nf \in BOOLEAN, shape \in {"literal", "throws"},
     own \in {<<>>, <<Mem("d", "string")>>},
     sel \in AliasSelections, loc \in {"interface", "literal", "throws", "absent"},
     ms \in ShapeBaseMembers}

\* type aliases for generateClassFromType: an object literal, or an Omit of
\* a base that is in the file, in a relatively imported file, or nowhere
ClassTypeCases ==
  {[r |-> Request("classType", nf, "Target",
                  SourceFile(<<Alias("Target", "literal", <<Mem("d", "string")>>, sel)>>
                               \o BaseInDoc(loc, ms),
                             ImportsFor(loc))),
    d |-> ShapeDisk(loc, ms)] :
     nf \in BOOLEAN,
     sel \in {<<>>, <<Sel("Omit", BaseName, <<"a">>)>>, <<Sel("Omit", BaseName, <<"zz">>)>>,
              <<Sel("Omit", QualifiedBaseName, <<"a", "b">>)>>},
     loc \in BaseLocations, ms \in ShapeBaseMembers}

\* the cursor line names no declaration, or one that the file does not declare
NamelessCases ==
  {[r |-> Request(cmd, TRUE, ln, SourceFile(<<Iface("Target", BaseMembers, <<>>)>>, <<>>)),
    d |-> ShapeDisk("absent", <<>>)] :
     cmd \in {"class", "factory", "factoryType", "classType"}, ln \in {"", "Missing"}}

InitShape ==
  /\ \E c \in ShapeCases \cup TypeCases \cup ClassTypeCases \cup NamelessCases :
       /\ req = c.r
       /\ disk = c.d
  /\ project = [p \in AllPaths |-> NotLoaded]
  /\ InitCommon

NextShape ==
  \/ GenerateFromInterface
  \/ GenerateFactoryFromType
  \/ GenerateClassFromType
  \/ FileExistsProbe
  \/ EnsureFileLoaded
  \/ WriteArtifact

SpecShape == InitShape /\ [][NextShape]_vars

(***************************************************************************)
(* Properties of the nearby resolver (checked under SpecResolve).          *)
(***************************************************************************)
\* the base lookup of the command has returned
SearchDone == pc \in {"write", "done"} /\ her.kind # "none"

RequestedSimple == Simple(her.base)

Declares(sf, simple) == \E i \in 1..Len(sf.decls) :
                          /\ sf.decls[i].kind \in {"interface", "type"}
                          /\ <<sf.decls[i].name>> = simple

\* the declaration of `simple` in a file: its interface if it has one
DeclIn(sf, simple) ==
  IF \E i \in 1..Len(sf.decls) :
       sf.decls[i].kind = "interface" /\ <<sf.decls[i].name>> = simple
  THEN LET i == CHOOSE k \in 1..Len(sf.decls) :
                  /\ sf.decls[k].kind = "interface" /\ <<sf.decls[k].name>> = simple
                  /\ \A j \in 1..(k - 1) :
                       ~(sf.decls[j].kind = "interface" /\ <<sf.decls[j].name>> = simple)
       IN sf.decls[i]
  ELSE LET i == CHOOSE k \in 1..Len(sf.decls) :
                  /\ sf.decls[k].kind = "type" /\ <<sf.decls[k].name>> = simple
                  /\ \A j \in 1..(k - 1) :
                       ~(sf.decls[j].kind = "type" /\ <<sf.decls[j].name>> = simple)
       IN sf.decls[i]

\* the file an import specifier names: its first existing candidate
NamedFile(spec) ==
  LET ex == {i \in 1..Len(CandidateExts) : fileExists(Path(spec.stem, CandidateExts[i]))}
  IN IF ex = {} THEN <<>>
     ELSE <<Path(spec.stem, CandidateExts[CHOOSE i \in ex : \A j \in ex : i <= j])>>

\* the files of the three tiers, in search order
SearchOrder(simple) ==
  <<CurrentPath>>
  \o Concat([i \in 1..Len(req.doc.imports) |->
               IF req.doc.imports[i].rel THEN NamedFile(req.doc.imports[i]) ELSE <<>>])
  \o SelectSeq([i \in 1..Len(GuessExts) |-> Path(simple, GuessExts[i])],
               LAMBDA p : fileExists(p))

ContentOf(p) == IF p = CurrentPath THEN req.doc ELSE disk[p].sf

\* positions of SearchOrder whose file declares the name
DeclaringPositions(simple) ==
  LET order == SearchOrder(simple)
  IN {i \in 1..Len(order) : Declares(ContentOf(order[i]), simple)}

FirstDeclaring(simple) ==
  LET order == SearchOrder(simple)
      ps == {i \in 1..Len(order) : Declares(ContentOf(order[i]), simple)}
  IN IF ps = {} THEN NoFound
     ELSE LET p == order[CHOOSE i \in ps : \A j \in ps : i <= j]
          IN [path |-> p, decl |-> DeclIn(ContentOf(p), simple)]

\* C1: findDeclNearby returns the declaration of the de-qualified name in the
\* first file, in the order current file, relative imports in source order,
\* same-directory guesses .ts/.tsx/.d.ts, that declares it; a later file's
\* declaration is never returned when an earlier file declares the name.
C1_FirstDeclaringFileWins ==
  SearchDone => found = FirstDeclaring(RequestedSimple)

\* C1 witness: the second import's file is returned although the guess file
\* Base.ts declares the name too, and the first import's file does not
C1_Witness ==
  /\ SearchDone
  /\ Len(req.doc.imports) = 2
  /\ found.path = Path(req.doc.imports[2].stem, ".ts")
  /\ found.path.stem # <<"Base">>
  /\ fileExists(Path(<<"Base">>, ".tsx"))
  /\ Declares(disk[Path(<<"Base">>, ".tsx")].sf, <<"Base">>)
  /\ Cardinality(DeclaringPositions(<<"Base">>)) >= 2

\* C2: when the current file declares the requested name, that declaration is
\* returned although an imported or same-directory file declares it too, and no
\* file-existence probe and no file load is performed.
C2_CurrentFileShortCircuits ==
  (SearchDone /\ Declares(req.doc, RequestedSimple))
    => /\ found.path = CurrentPath
       /\ found.decl = DeclIn(req.doc, RequestedSimple)
       /\ probes = <<>>
       /\ loads = <<>>

\* C2 witness: the current file and the file of a relative import both declare
\* the name and the lookup has returned
C2_Witness ==
  /\ SearchDone
  /\ Declares(req.doc, RequestedSimple)
  /\ req.doc.imports # <<>>
  /\ \E i \in 2..Len(SearchOrder(RequestedSimple)) :
       Declares(ContentOf(SearchOrder(RequestedSimple)[i]), RequestedSimple)
  /\ found.path = CurrentPath

\* the files findDeclNearby may look at: candidates of the relative imports of
\* the current file and the same-directory guesses
DirectPaths(simple) ==
  UNION {Range(Candidates(req.doc.imports[i])) :
           i \in {j \in 1..Len(req.doc.imports) : req.doc.imports[j].rel}}
  \cup Range(Guesses(simple))

\* a file that was looked into imports a file that declares the name
TransitiveOnly(simple) ==
  /\ DeclaringPositions(simple) = {}
  /\ \E p \in Range(loads) \cup {q \in AllPaths : project[q].loaded} :
       \E i \in 1..Len(disk[p].sf.imports) :
         LET q == Path(disk[p].sf.imports[i].stem, ".ts")
         IN fileExists(q) /\ Declares(disk[q].sf, simple)

\* C6: no transitive search and no broader scan: only the candidates of the
\* current file's relative imports and the guesses are probed or loaded, the
\* returned declaration lives in one of them or in the current file, and when
\* none of the three tiers declares the name the command shows
\* "Base type ... not found nearby" and produces no artifact.
C6_NoTransitiveSearch ==
  /\ LET direct == DirectPaths(RequestedSimple)
     IN /\ Range(probes) \subseteq direct
        /\ Range(loads) \subseteq direct
        /\ found.path \in direct \cup {CurrentPath, NoPath}
  /\ (SearchDone /\ DeclaringPositions(RequestedSimple) = {})
       => /\ found = NoFound
          /\ pc = "done"
          /\ shown = <<Err("BaseNotFoundNearby")>>
          /\ written = <<>>
          /\ edited = <<>>

\* C6 witness: the imported file m.ts was loaded, it imports ./deep which
\* declares the name, and the command ended with the not-found error
C6_Witness ==
  /\ pc = "done"
  /\ Path(<<"m">>, ".ts") \in Range(loads)
  /\ TransitiveOnly(RequestedSimple)
  /\ shown = <<Err("BaseNotFoundNearby")>>

(***************************************************************************)
(* Properties of the Pick / Omit policy (checked under SpecShape).         *)
(***************************************************************************)
FromInterface == req.cmd \in {"class", "factory"}

Names(ps) == {ps[i].name : i \in 1..Len(ps)}

\* s is t restricted to the positions in keep, in the order of t
IsRestriction(s, t, keep) ==
  /\ Len(s) = Cardinality(keep)
  /\ \A i \in 1..Len(s) :
       \E k \in keep : /\ s[i] = t[k]
                       /\ Cardinality({j \in keep : j < k}) = i - 1

BaseFound == found.decl.kind # "none"
BaseFields == getPropsFromDecl(found.decl)
OwnFields == PropsOfMembers(TargetIface.members)

\* C3: with a Pick heritage whose keys all name base fields, the resolved field
\* list is exactly the base fields whose name is a key, each once, in the
\* base's declaration order, whatever the order or repetition of the keys.
C3_PickInBaseOrder ==
  (/\ FromInterface /\ SearchDone /\ her.kind = "pick" /\ BaseFound
   /\ Range(her.keys) \subseteq Names(BaseFields))
    => /\ IsRestriction(properties, BaseFields,
                        {i \in 1..Len(BaseFields) : BaseFields[i].name \in Range(her.keys)})
       /\ pc = "write" \/ (written \o edited) = <<Artifact>>

\* C3 witness: keys 'b' | 'a' against the base a, b, c gave the fields a, b
C3_Witness ==
  /\ FromInterface /\ pc = "done" /\ her.kind = "pick"
  /\ her.keys = <<"b", "a">>
  /\ Len(BaseFields) = 3
  /\ Len(properties) = 2 /\ properties[1].name = "a" /\ properties[2].name = "b"
  /\ (written \o edited) = <<Artifact>>

\* C4: with an Omit heritage the resolved field list is the base fields whose
\* name is no key, in base order, each replaced in place by the own field of
\* the same name if there is one, followed by the own fields that have no
\* surviving base counterpart, in their own order.
C4_OmitThenOwnFields ==
  (FromInterface /\ SearchDone /\ her.kind = "omit" /\ BaseFound)
    => LET surviving == {i \in 1..Len(BaseFields) :
                           BaseFields[i].name \notin Range(her.keys)}
           kept == Cardinality(surviving)
           appended == {i \in 1..Len(OwnFields) :
                          \A k \in surviving : BaseFields[k].name # OwnFields[i].name}
       IN /\ Len(properties) = kept + Cardinality(appended)
          /\ \A i \in 1..kept :
               \E k \in surviving :
                 /\ Cardinality({j \in surviving : j < k}) = i - 1
                 /\ properties[i].name = BaseFields[k].name
                 /\ IF BaseFields[k].name \in Names(OwnFields)
                    THEN properties[i] \in Range(OwnFields)
                    ELSE properties[i] = BaseFields[k]
          /\ IsRestriction(SubSeq(properties, kept + 1, Len(properties)),
                           OwnFields, appended)

\* C4 witness: base a, b, c, Omit 'b', own field c: Date gave a, c: Date
C4_Witness ==
  /\ FromInterface /\ pc = "done" /\ her.kind = "omit"
  /\ her.keys = <<"b">>
  /\ Len(BaseFields) = 3
  /\ OwnFields = <<PropInfo("c", "Date", FALSE)>>
  /\ properties = <<PropInfo("a", "string", FALSE), PropInfo("c", "Date", FALSE)>>
  /\ (written \o edited) = <<Artifact>>

\* C4 second witness case is covered by the same formula: an own field whose
\* base counterpart was omitted is appended
C4_AppendedWitness ==
  /\ FromInterface /\ pc = "done" /\ her.kind = "omit"
  /\ her.keys = <<"b">>
  /\ Len(BaseFields) = 3
  /\ Len(properties) = 4 /\ properties[3].name = "b" /\ properties[4].name = "d"

\* the Pick expression the command is invoked on, with the fields of its base:
\* the detected heritage for the interface commands, the first Pick<...> of the
\* alias text for generateFactoryFromType
PickOfRequest ==
  IF FromInterface
  THEN IF her.kind = "pick" /\ BaseFound
       THEN [present |-> TRUE, keys |-> her.keys, fields |-> BaseFields]
       ELSE [present |-> FALSE, keys |-> <<>>, fields |-> <<>>]
  ELSE LET pickMatch == FirstSel(TargetAlias.sel, "Pick")
           baseIface == GetDecl(req.doc, "interface", SplitPop(pickMatch.base))
           baseType == GetDecl(req.doc, "type", SplitPop(pickMatch.base))
       IN IF LineMatches /\ pickMatch.op = "Pick" /\ baseIface.kind # "none"
          THEN [present |-> TRUE, keys |-> pickMatch.keys,
                fields |-> PropsOfMembers(baseIface.members)]
          ELSE IF LineMatches /\ pickMatch.op = "Pick" /\ baseType.kind # "none"
                  /\ baseType.alias # "throws"
          THEN [present |-> TRUE, keys |-> pickMatch.keys,
                fields |-> CheckerProps(baseType.members)]
          ELSE [present |-> FALSE, keys |-> <<>>, fields |-> <<>>]

InvalidKeysOfRequest == Range(PickOfRequest.keys) \ Names(PickOfRequest.fields)

\* C5: if a key of the Pick is not the name of a base field, the command ends
\* with the "Invalid fields in Pick" error listing every invalid key and
\* nothing is written or inserted.
C5_InvalidPickAborts ==
  (pc \in {"write", "done"} /\ PickOfRequest.present /\ InvalidKeysOfRequest # {})
    => /\ pc = "done"
       /\ Len(shown) = 1
       /\ shown[1].level = "error" /\ shown[1].kind = "InvalidPick"
       /\ Range(shown[1].names) = InvalidKeysOfRequest
       /\ written = <<>> /\ edited = <<>>

\* C5 restricted to the two interface commands, where it holds
C5_InterfaceCommandsAbort == FromInterface => C5_InvalidPickAborts

\* an earlier failure ended the command before a final field list existed
EarlierFailure ==
  \E i \in 1..Len(shown) :
    shown[i].kind \in {"NoName", "InterfaceNotFound", "TypeNotFound",
                       "BaseNotFoundNearby", "BaseNotInFile", "InvalidPick",
                       "Exception"}

NotFoundErrors ==
  {Err("InterfaceNotFound"), Err("TypeNotFound"), Err("BaseNotFoundNearby"),
   Err("BaseNotInFile")}

\* C7: whenever the final resolved field list is empty the command ends with
\* the "No properties found" error, which is none of the not-found errors, and
\* nothing is written or inserted; every artifact has at least one field.
C7_EmptyResultFails ==
  /\ (pc \in {"write", "done"} /\ ~EarlierFailure /\ properties = <<>>)
       => /\ pc = "done"
          /\ shown = <<Err("NoProperties")>>
          /\ shown[1] \notin NotFoundErrors
          /\ written = <<>> /\ edited = <<>>
  /\ \A i \in 1..Len(written \o edited) : (written \o edited)[i].fields # <<>>

\* C7 witness: Omit 'a' of the base whose only field is a, no own fields
C7_Witness ==
  /\ FromInterface /\ pc = "done" /\ her.kind = "omit" /\ BaseFound
  /\ Names(BaseFields) = {"a"} /\ her.keys = <<"a">> /\ OwnFields = <<>>
  /\ properties = <<>>
  /\ shown = <<Err("NoProperties")>>

(***************************************************************************)
(* splitFields of generateViewInterfaces.  A token is a text; names are    *)
(* the lexemes other than ".", "!" and "?".                                *)
(***************************************************************************)
IsWord(x) == x \notin {".", "!", "?"}

\* Map<string, Set<string>> as a sequence of [key, vals] in insertion order
MapHas(m, k) == \E i \in 1..Len(m) : m[i].key = k
MapGet(m, k) == IF MapHas(m, k) THEN m[CHOOSE i \in 1..Len(m) : m[i].key = k].vals ELSE <<>>
MapKeys(m) == [i \in 1..Len(m) |-> m[i].key]
MapDelete(m, k) == SelectSeq(m, LAMBDA e : e.key # k)

\* if (!m.has(k)) m.set(k, new Set()); m.get(k).add(v)
MapAdd(m, k, v) ==
  IF MapHas(m, k)
  THEN [i \in 1..Len(m) |-> IF m[i].key = k
                            THEN [key |-> k, vals |-> SetAdd(m[i].vals, v)]
                            ELSE m[i]]
  ELSE Append(m, [key |-> k, vals |-> <<v>>])

\* f.match(/^(\w+)\.\!(\w+)$/)
ExclusionMatch(f) ==
  Len(f) = 4 /\ IsWord(f[1]) /\ f[2] = "." /\ f[3] = "!" /\ IsWord(f[4])

\* f.match(/^\?(\w+)$/)
OptionalTopMatch(f) == Len(f) = 2 /\ f[1] = "?" /\ IsWord(f[2])

\* f.match(/^(\w+)\.\?(\w+)$/)
OptionalNestedMatch(f) ==
  Len(f) = 4 /\ IsWord(f[1]) /\ f[2] = "." /\ f[3] = "?" /\ IsWord(f[4])

\* variant: an exclusion token does not put its parent in the top fields
ClassifyTokenExclusionOnly(sp, f) ==
  IF ExclusionMatch(f)
  THEN [sp EXCEPT !.exclusions = MapAdd(@, <<f[1]>>, <<f[4]>>)]
  ELSE IF OptionalTopMatch(f)
  THEN [sp EXCEPT !.top = SetAdd(@, <<f[2]>>),
                  !.optionalTop = SetAdd(@, <<f[2]>>)]
  ELSE IF OptionalNestedMatch(f)
  THEN [sp EXCEPT !.nested = MapAdd(@, <<f[1]>>, <<f[4]>>),
                  !.optionalNested = MapAdd(@, <<f[1]>>, <<f[4]>>)]
  ELSE LET parts == SplitDot(f)
       IN IF Len(parts) = 1 THEN [sp EXCEPT !.top = SetAdd(@, parts[1])]
          ELSE [sp EXCEPT !.nested = MapAdd(@, parts[1], parts[2])]

\* the body of the loop `for (const f of fields)` for one token
ClassifyToken(sp, f) ==
  IF ExclusionMatch(f)
  THEN [sp EXCEPT !.top = SetAdd(@, <<f[1]>>),
                  !.exclusions = MapAdd(@, <<f[1]>>, <<f[4]>>)]
  ELSE IF OptionalTopMatch(f)
  THEN [sp EXCEPT !.top = SetAdd(@, <<f[2]>>),
                  !.optionalTop = SetAdd(@, <<f[2]>>)]
  ELSE IF OptionalNestedMatch(f)
  THEN [sp EXCEPT !.nested = MapAdd(@, <<f[1]>>, <<f[4]>>),
                  !.optionalNested = MapAdd(@, <<f[1]>>, <<f[4]>>)]
  ELSE LET parts == SplitDot(f)
       IN IF Len(parts) = 1 THEN [sp EXCEPT !.top = SetAdd(@, parts[1])]
          ELSE [sp EXCEPT !.nested = MapAdd(@, parts[1], parts[2])]

\* variant: every parent with nested children leaves the top fields
PreferNestedAlways(sp) ==
  [sp EXCEPT !.top = SelectSeq(@, LAMBDA n : ~MapHas(sp.nested, n))]

\* for (const parent of nested.keys()) if (!exclusions.has(parent)) top.delete(parent)
PreferNested(sp) ==
  [sp EXCEPT !.top = SelectSeq(@, LAMBDA n :
                       ~(MapHas(sp.nested, n) /\ ~MapHas(sp.exclusions, n)))]

(***************************************************************************)
(* generateViewInterfaces: validation and emission of one view.            *)
(***************************************************************************)
Views == req.schemas.views
ViewTokens == Views[vi].tokens

\* iface.getProperty(name)
HasProperty(name) ==
  \E i \in 1..Len(TargetIface.members) : <<TargetIface.members[i].name>> = name

GetProperty(name) ==
  TargetIface.members[CHOOSE i \in 1..Len(TargetIface.members) :
                        <<TargetIface.members[i].name>> = name]

\* new Set(iface.getProperties().map(p => p.getName()))
ifacePropNames == {<<TargetIface.members[i].name>> : i \in 1..Len(TargetIface.members)}

\* elem is the element type of an array type, the type itself otherwise
getArrayElementTypeIfArray(t) ==
  [isArray |-> t.isArray, elem |-> IF t.isArray THEN t.elem ELSE t.props]

ChildNames(props) == {<<props[i].name>> : i \in 1..Len(props)}

\* the replacements of normalizePrimitives on a type text; the type texts of
\* the explored interfaces hold each boxed name only as the whole text
normalizePrimitives(txt) ==
  IF txt = "String" THEN "string"
  ELSE IF txt = "Number" THEN "number"
  ELSE IF txt = "Boolean" THEN "boolean"
  ELSE IF txt = "Symbol" THEN "symbol"
  ELSE IF txt = "BigInt" THEN "bigint"
  ELSE txt

\* variant: the excluded fields are checked in every mode
InvalidExclusionsAnyMode(sp, mode) ==
  Concat([i \in 1..Len(sp.exclusions) |->
    LET e == sp.exclusions[i]
    IN IF e.key \notin ifacePropNames
       THEN [j \in 1..Len(e.vals) |-> e.key \o <<".", "!">> \o e.vals[j]]
       ELSE LET bad == SelectSeq(e.vals, LAMBDA ef :
                         ef \notin ChildNames(GetProperty(e.key).type.props))
            IN [j \in 1..Len(bad) |-> e.key \o <<".", "!">> \o bad[j]]])

\* the exclusions loop of the validation: `${parent}.!${f}` for every excluded
\* field of an unknown parent; in strict and partial mode also for every
\* excluded field that parentType.getProperties() does not list
InvalidExclusions(sp, mode) ==
  Concat([i \in 1..Len(sp.exclusions) |->
    LET e == sp.exclusions[i]
    IN IF e.key \notin ifacePropNames
       THEN [j \in 1..Len(e.vals) |-> e.key \o <<".", "!">> \o e.vals[j]]
       ELSE IF mode \in {"strict", "partial"}
       THEN LET bad == SelectSeq(e.vals, LAMBDA ef :
                         ef \notin ChildNames(GetProperty(e.key).type.props))
            IN [j \in 1..Len(bad) |-> e.key \o <<".", "!">> \o bad[j]]
       ELSE <<>>])

\* the nested loop of the validation: `${parent}.${c}` for every child that
\* the element type of a known parent does not list
InvalidNestedChildren(sp) ==
  Concat([i \in 1..Len(sp.nested) |->
    LET e == sp.nested[i]
    IN IF e.key \notin ifacePropNames THEN <<>>
       ELSE LET elem == getArrayElementTypeIfArray(GetProperty(e.key).type).elem
                bad == SelectSeq(e.vals, LAMBDA c : c \notin ChildNames(elem))
            IN [j \in 1..Len(bad) |-> e.key \o <<".">> \o bad[j]]])

InvalidFields(sp, mode) ==
  SelectSeq(sp.top, LAMBDA f : f \notin ifacePropNames)
  \o SelectSeq(MapKeys(sp.nested), LAMBDA q : q \notin ifacePropNames)
  \o InvalidNestedChildren(sp)
  \o InvalidExclusions(sp, mode)

KnownKeys(m) == SelectSeq(m, LAMBDA e : e.key \in ifacePropNames)

\* the partial / loose branch: drop the names the interface does not have
DropUnknown(sp, invalid) ==
  [top |-> SelectSeq(sp.top, LAMBDA f : f \in ifacePropNames),
   nested |-> KnownKeys(sp.nested),
   exclusions |-> KnownKeys(sp.exclusions),
   optionalTop |-> SelectSeq(sp.optionalTop, LAMBDA f : f \in ifacePropNames),
   optionalNested |-> KnownKeys(sp.optionalNested),
   invalid |-> invalid]

KeepAll(sp, invalid) ==
  [top |-> sp.top, nested |-> sp.nested, exclusions |-> sp.exclusions,
   optionalTop |-> sp.optionalTop, optionalNested |-> sp.optionalNested,
   invalid |-> invalid]

Warning(kind, view, invalid) == [kind |-> kind, view |-> view, invalid |-> invalid]

\* variant: strict mode drops the unknown names like partial mode does
ValidationOutcomeLenient(sp, mode, view) ==
  LET invalid == InvalidFields(sp, mode)
      fin == DropUnknown(sp, invalid)
  IN IF fin.top = <<>> /\ fin.nested = <<>> /\ fin.exclusions = <<>>
     THEN [skip |-> TRUE, final |-> fin,
           warn |-> <<Warning("SkippedNoValid", view, <<>>)>>]
     ELSE [skip |-> FALSE, final |-> fin,
           warn |-> IF invalid = <<>> THEN <<>>
                    ELSE <<Warning("Partial", view, invalid)>>]

\* the validation-mode branch: the surviving selection, whether the view is
\* skipped, and the warnings it pushes
ValidationOutcome(sp, mode, view) ==
  LET invalid == InvalidFields(sp, mode)
  IN IF mode = "strict"
     THEN IF invalid # <<>>
          THEN [skip |-> TRUE, final |-> KeepAll(sp, invalid),
                warn |-> <<Warning("Skipped", view, invalid)>>]
          ELSE [skip |-> FALSE, final |-> KeepAll(sp, invalid), warn |-> <<>>]
     ELSE LET fin == DropUnknown(sp, invalid)
          IN IF mode = "partial" /\ fin.top = <<>> /\ fin.nested = <<>>
                /\ fin.exclusions = <<>>
             THEN [skip |-> TRUE, final |-> fin,
                   warn |-> <<Warning("SkippedNoValid", view, <<>>)>>]
             ELSE [skip |-> FALSE, final |-> fin,
                   warn |-> IF invalid = <<>> THEN <<>>
                            ELSE <<Warning(IF mode = "partial" THEN "Partial"
                                           ELSE "Loose", view, invalid)>>]

Piece(n, o, t) == [name |-> n, optional |-> o, type |-> t]
Line(n, o, k, t, cs) ==
  [name |-> n, optional |-> o, kind |-> k, type |-> t, children |-> cs]

\* variant: every top-level name is emitted with its declared type
TopLinesDeclaredType(fin, name) ==
  IF ~HasProperty(name) THEN <<>>
  ELSE <<Line(name, name \in Range(fin.optionalTop), "scalar",
              normalizePrimitives(GetProperty(name).tn), <<>>)>>

\* the text of the type node, or else of the checker's type, which can throw
getTopPropTypeText(sig) == IF sig.tn # NoAnnot THEN sig.tn ELSE sig.chk

\* the line of one name of finalTop, or none
TopLines(fin, name) ==
  IF ~HasProperty(name) THEN <<>>
  ELSE LET sig == GetProperty(name)
       IN IF MapHas(fin.exclusions, name)
          THEN LET excluded == MapGet(fin.exclusions, name)
                   ae == getArrayElementTypeIfArray(sig.type)
                   optionalChildSet == MapGet(fin.optionalNested, name)
                   kept == SelectSeq(ae.elem, LAMBDA c : <<c.name>> \notin Range(excluded))
                   childLines == [i \in 1..Len(kept) |->
                                    Piece(<<kept[i].name>>,
                                          <<kept[i].name>> \in Range(optionalChildSet),
                                          normalizePrimitives(kept[i].type))]
               IN IF childLines = <<>> THEN <<>>
                  ELSE <<Line(name, name \in Range(fin.optionalTop),
                              IF ae.isArray THEN "array" ELSE "object", "", childLines)>>
          ELSE <<Line(name, name \in Range(fin.optionalTop), "scalar",
                      normalizePrimitives(getTopPropTypeText(sig)), <<>>)>>

\* variant: a nested child the element type does not have is emitted as `any`
NestedLinesUnchecked(fin, e) ==
  IF ~HasProperty(e.key) THEN <<>>
  ELSE LET ae == getArrayElementTypeIfArray(GetProperty(e.key).type)
           optionalChildSet == MapGet(fin.optionalNested, e.key)
           pieces == [i \in 1..Len(e.vals) |->
                        Piece(e.vals[i], e.vals[i] \in Range(optionalChildSet), "any")]
       IN <<Line(e.key, e.key \in Range(fin.optionalTop),
                 IF ae.isArray THEN "array" ELSE "object", "", pieces)>>

\* the line of one entry of finalNested, or none
NestedLines(fin, e) ==
  IF ~HasProperty(e.key) THEN <<>>
  ELSE LET ae == getArrayElementTypeIfArray(GetProperty(e.key).type)
           optionalChildSet == MapGet(fin.optionalNested, e.key)
           known == SelectSeq(e.vals, LAMBDA c : c \in ChildNames(ae.elem))
           pieces == [i \in 1..Len(known) |->
                        Piece(known[i], known[i] \in Range(optionalChildSet),
                              normalizePrimitives(
                                ae.elem[CHOOSE k \in 1..Len(ae.elem) :
                                          <<ae.elem[k].name>> = known[i]].type))]
       IN IF pieces = <<>> THEN <<>>
          ELSE <<Line(e.key, e.key \in Range(fin.optionalTop),
                      IF ae.isArray THEN "array" ELSE "object", "", pieces)>>

\* variant: the lines follow the declaration of the target interface
ViewLinesAsDeclared(fin) ==
  Concat([i \in 1..Len(TargetIface.members) |->
    LET name == <<TargetIface.members[i].name>>
    IN (IF name \in Range(fin.top) THEN TopLines(fin, name) ELSE <<>>)
       \o Concat([k \in 1..Len(fin.nested) |->
             IF fin.nested[k].key = name THEN NestedLines(fin, fin.nested[k])
             ELSE <<>>])])

\* the lines of one view: the top-level fields, then the nested fields
ViewLines(fin) ==
  Concat([i \in 1..Len(fin.top) |-> TopLines(fin, fin.top[i])])
  \o Concat([i \in 1..Len(fin.nested) |-> NestedLines(fin, fin.nested[i])])

\* a type text the emit loops ask the checker for throws: getTopPropTypeText
\* for a name of finalTop, getTypeAtLocation(..).getText for a child
EmitThrows(fin) ==
  \/ \E i \in 1..Len(fin.top) :
       /\ HasProperty(fin.top[i])
       /\ getTopPropTypeText(GetProperty(fin.top[i])) = Throws
  \/ \E i \in 1..Len(fin.top) :
       \E l \in Range(TopLines(fin, fin.top[i])) :
         \E k \in 1..Len(l.children) : l.children[k].type = Throws
  \/ \E i \in 1..Len(fin.nested) :
       \E l \in Range(NestedLines(fin, fin.nested[i])) :
         \E k \in 1..Len(l.children) : l.children[k].type = Throws

(***************************************************************************)
(* Actions of generateViewInterfaces.  The command is synchronous up to    *)
(* its write; its loops are unfolded into steps.  An exception thrown in   *)
(* the emit loops reaches the catch of the whole command (pc "thrown").    *)
(***************************************************************************)
\* the next view at index >= i that has at least one string field
NextView(i) ==
  LET c == {j \in i..Len(Views) : Views[j].tokens # <<>>}
  IN IF c = {} THEN Len(Views) + 1 ELSE CHOOSE j \in c : \A k \in c : j <= k

GoToView(i) ==
  /\ vi' = NextView(i)
  /\ ti' = 1
  /\ split' = EmptySplit
  /\ pc' = IF NextView(i) > Len(Views) THEN "finish" ELSE "split"

ViewStart ==
  /\ pc = "start"
  /\ req.cmd = "views"
  /\ IF ~LineMatches \/ TargetIface.kind = "none" \/ req.schemas.state # "object"
     THEN /\ shown' = <<Err(IF ~LineMatches THEN "NoName"
                            ELSE IF TargetIface.kind = "none" THEN "InterfaceNotFound"
                            ELSE IF req.schemas.state = "missing" THEN "NoViewSchemas"
                            ELSE "SchemasNotObject")>>
          /\ pc' = "done"
          /\ UNCHANGED <<split, vi, ti>>
     ELSE shown' = shown /\ GoToView(1)
  /\ final' = final
  /\ UNCHANGED <<req, disk, project, written, edited, out, warnings, generated>>
  /\ UNCHANGED resolveVars
  /\ UNCHANGED hostVars

\* one iteration of the token loop of splitFields
SplitToken ==
  /\ pc = "split"
  /\ split' = ClassifyToken(split, ViewTokens[ti])
  /\ ti' = ti + 1
  /\ pc' = IF ti = Len(ViewTokens) THEN "precedence" ELSE "split"
  /\ UNCHANGED <<req, disk, project, shown, written, edited, final, vi, out,
                 warnings, generated>>
  /\ UNCHANGED resolveVars
  /\ UNCHANGED hostVars

\* the closing loop of splitFields: prefer nested over top (unless exclusion)
SplitPrecedence ==
  /\ pc = "precedence"
  /\ split' = PreferNested(split)
  /\ pc' = "validate"
  /\ UNCHANGED <<req, disk, project, shown, written, edited, final, vi, ti, out,
                 warnings, generated>>
  /\ UNCHANGED resolveVars
  /\ UNCHANGED hostVars

\* validation and the validation-mode branch of one view
ValidateView ==
  /\ pc = "validate"
  /\ LET o == ValidationOutcome(split, req.mode, Views[vi].name)
     IN /\ warnings' = warnings \o o.warn
        /\ final' = [vi |-> vi] @@ o.final
        /\ IF o.skip THEN GoToView(vi + 1)
           ELSE pc' = "emit" /\ UNCHANGED <<split, vi, ti>>
  /\ UNCHANGED <<req, disk, project, shown, written, edited, out, generated>>
  /\ UNCHANGED resolveVars
  /\ UNCHANGED hostVars

\* emission of one view: no line, no view
EmitView ==
  /\ pc = "emit"
  /\ IF EmitThrows(final)
     THEN /\ shown' = <<Err("Exception")>>
          /\ pc' = "thrown"
          /\ UNCHANGED <<out, generated, split, vi, ti>>
     ELSE /\ LET lines == ViewLines(final)
             IN IF lines = <<>> THEN UNCHANGED <<out, generated>>
                ELSE /\ out' = Append(out, [vi |-> vi, name |-> Views[vi].name,
                                             lines |-> lines])
                     /\ generated' = generated + 1
          /\ GoToView(vi + 1)
          /\ shown' = shown
  /\ UNCHANGED <<req, disk, project, written, edited, warnings, final>>
  /\ UNCHANGED resolveVars
  /\ UNCHANGED hostVars

\* variant: the write is made whether or not a view was generated
ViewFinishAlwaysWrites ==
  /\ pc = "finish"
  /\ IF req.inNewFile
     THEN written' = Append(written, out) /\ edited' = edited
     ELSE edited' = Append(edited, out) /\ written' = written
  /\ shown' = <<IF generated = 0 THEN Err("NoViews") ELSE Msg("info", "Generated", <<>>)>>
  /\ pc' = "done"
  /\ UNCHANGED <<req, disk, project>>
  /\ UNCHANGED viewVars
  /\ UNCHANGED resolveVars
  /\ UNCHANGED hostVars

\* after the loop: the "No view interfaces generated" error, or the write
ViewFinish ==
  /\ pc = "finish"
  /\ IF generated = 0
     THEN shown' = <<Err("NoViews")>> /\ UNCHANGED <<written, edited>>
     ELSE /\ IF req.inNewFile
             THEN written' = Append(written, out) /\ edited' = edited
             ELSE edited' = Append(edited, out) /\ written' = written
          /\ shown' = <<Msg("info", "Generated", <<>>)>>
  /\ pc' = "done"
  /\ UNCHANGED <<req, disk, project>>
  /\ UNCHANGED viewVars
  /\ UNCHANGED resolveVars
  /\ UNCHANGED hostVars

(***************************************************************************)
(* Inputs of the view runs: the interface _Post of the README, one view    *)
(* whose tokens vary, and the README's view `feed` as its sibling.         *)
(***************************************************************************)
Child(n, t) == [name |-> n, type |-> t]

\* the members a string and an array expose through getProperties()
StringProps == <<Child("length", "number")>>
ArrayProps == <<Child("length", "number")>>

Scalar(props) == [isArray |-> FALSE, props |-> props, elem |-> props]
ArrayOf(elemProps) == [isArray |-> TRUE, props |-> ArrayProps, elem |-> elemProps]

ViewMem(n, t, type) ==
  [name |-> n, tn |-> t, chk |-> t, q |-> FALSE, sig |-> "prop", type |-> type]

PostMembers ==
  <<ViewMem("id", "string", Scalar(StringProps)),
    ViewMem("title", "string", Scalar(StringProps)),
    ViewMem("text", "string", Scalar(StringProps)),
    ViewMem("images", "string[]", ArrayOf(StringProps)),
    ViewMem("author", "{ id: string; name: string }",
            Scalar(<<Child("id", "string"), Child("name", "string")>>))>>

TokenPool ==
  {<<"id">>, <<"?", "title">>, <<"author">>,
   <<"author", ".", "name">>, <<"author", ".", "?", "id">>,
   <<"author", ".", "!", "id">>, <<"author", ".", "!", "name">>,
   <<"zz">>, <<"zz", ".", "name">>, <<"author", ".", "zz">>,
   <<"author", ".", "!", "zz">>, <<"zz", ".", "!", "id">>}

TokenLists == SeqsUpTo(TokenPool, MaxTokens)

View(n, tokens) == [name |-> n, tokens |-> tokens]
FeedView == View("feed", <<<<"id">>, <<"title">>, <<"text">>>>)

ValidationModes == {"strict", "partial", "loose"}

ViewRequest(nf, ln, mode, state, views) ==
  [cmd |-> "views", inNewFile |-> nf, lineName |-> ln,
   doc |-> SourceFile(<<Iface("_Post", PostMembers, <<>>)>>, <<>>),
   mode |-> mode, schemas |-> [state |-> state, views |-> views]]

\* the view alone, and with its sibling when its list is shorter than the bound
MainBatches(ts) ==
  {<<View("main", ts)>>}
  \cup (IF Len(ts) < MaxTokens THEN {<<View("main", ts), FeedView>>} ELSE {})

\* runs that stop before any view is read
StoppedRequests ==
  {ViewRequest(TRUE, "", "partial", "object", <<FeedView>>),
   ViewRequest(TRUE, "Missing", "partial", "object", <<FeedView>>),
   ViewRequest(TRUE, "_Post", "partial", "missing", <<>>),
   ViewRequest(TRUE, "_Post", "partial", "notObject", <<>>)}

\* _Post with three more properties: `score` and `count` have no type
\* annotation, and the checker throws on the type text of `score` and of
\* the child `meta.raw`
InferredViewMem(n, t, type) ==
  [name |-> n, tn |-> NoAnnot, chk |-> t, q |-> FALSE, sig |-> "prop", type |-> type]

CheckedPostMembers ==
  PostMembers \o
  <<InferredViewMem("score", Throws, Scalar(<<>>)),
    InferredViewMem("count", "number", Scalar(<<>>)),
    ViewMem("meta", "Meta", Scalar(<<Child("raw", Throws), Child("tag", "string")>>))>>

CheckedTokenLists ==
  {<<<<"count">>>>, <<<<"score">>>>, <<<<"id">>, <<"score">>>>,
   <<<<"meta", ".", "tag">>>>, <<<<"meta", ".", "raw">>>>,
   <<<<"meta", ".", "!", "tag">>>>, <<<<"meta", ".", "!", "raw">>>>,
   <<<<"score", ".", "!", "zz">>>>, <<<<"zz">>>>, <<<<"id">>, <<"count", ".", "zz">>>>}

CheckedBatches(ts) ==
  {<<View("main", ts)>>, <<View("main", ts), FeedView>>, <<FeedView, View("main", ts)>>}

CheckedRequests ==
  {[ViewRequest(nf, "_Post", mode, "object", views) EXCEPT
      !.doc = SourceFile(<<Iface("_Post", CheckedPostMembers, <<>>)>>, <<>>)] :
     nf \in BOOLEAN, mode \in ValidationModes,
     views \in UNION {CheckedBatches(ts) : ts \in CheckedTokenLists}}

\* _Post with two array properties whose elements are objects
GalleryMembers ==
  PostMembers \o
  <<ViewMem("photos", "Photo[]",
            ArrayOf(<<Child("url", "string"), Child("alt", "string")>>)),
    ViewMem("tags", "ReadonlyArray<Tag>", ArrayOf(<<Child("label", "string")>>))>>

\* tokens that name children of an array parent and of an object parent;
\* `length` is a member of every array and of no element
ArrayTokenPool ==
  {<<"id">>, <<"photos">>, <<"photos", ".", "url">>, <<"photos", ".", "?", "alt">>,
   <<"photos", ".", "zz">>, <<"photos", ".", "length">>,
   <<"photos", ".", "!", "alt">>, <<"photos", ".", "!", "zz">>,
   <<"photos", ".", "!", "length">>,
   <<"tags", ".", "label">>, <<"tags", ".", "!", "label">>,
   <<"author", ".", "name">>, <<"author", ".", "!", "id">>, <<"author", ".", "!", "zz">>}

ArrayTokenLists == SeqsUpTo(ArrayTokenPool, 2) \ {<<>>}

ArrayRequests ==
  {[ViewRequest(nf, "_Post", mode, "object", <<View("main", ts)>>) EXCEPT
      !.doc = SourceFile(<<Iface("_Post", GalleryMembers, <<>>)>>, <<>>)] :
     nf \in BOOLEAN, mode \in ValidationModes, ts \in ArrayTokenLists}

InitArrays ==
  /\ req \in ArrayRequests
  /\ disk = [p \in AllPaths |-> NoFile]
  /\ project = [p \in AllPaths |-> NotLoaded]
  /\ InitCommon

InitView ==
  /\ \/ \E mode \in ValidationModes, ts \in TokenLists :
          \E views \in MainBatches(ts) :
            req = ViewRequest(Len(views) = 1, "_Post", mode, "object", views)
     \/ req \in StoppedRequests
     \/ req \in CheckedRequests
  /\ disk = [p \in AllPaths |-> NoFile]
  /\ project = [p \in AllPaths |-> NotLoaded]
  /\ InitCommon

NextViews ==
  \/ ViewStart
  \/ SplitToken
  \/ SplitPrecedence
  \/ ValidateView
  \/ EmitView
  \/ ViewFinish

SpecView == InitView /\ [][NextViews]_vars

\* the view command on the array inputs
SpecArrays == InitArrays /\ [][NextViews]_vars

(***************************************************************************)
(* The generation commands together: one invocation of any of them.        *)
(***************************************************************************)
\* the view runs that end each way: stopped early, no view generated, an
\* exception, a write, an edit
InitEndings ==
  /\ req \in StoppedRequests \cup CheckedRequests
  /\ disk = [p \in AllPaths |-> NoFile]
  /\ project = [p \in AllPaths |-> NotLoaded]
  /\ InitCommon

InitCommands == InitShape \/ InitEndings

NextCommands == NextShape \/ NextViews

SpecCommands == InitCommands /\ [][NextCommands]_vars

(***************************************************************************)
(* Properties of splitFields.                                              *)
(***************************************************************************)
\* the tokens of the current view the loop has classified so far
Classified == SubSeq(ViewTokens, 1, ti - 1)

\* a name is a lexeme other than the three marks
IsName(x) == x \notin {".", "!", "?"}

Pairs(m) ==
  UNION {{<<m[i].key, m[i].vals[j]>> : j \in 1..Len(m[i].vals)} : i \in 1..Len(m)}

\* the classified tokens of each of the five forms
ExclusionTokens ==
  {t \in Range(Classified) :
     Len(t) = 4 /\ IsName(t[1]) /\ t[2] = "." /\ t[3] = "!" /\ IsName(t[4])}
OptionalTopTokens ==
  {t \in Range(Classified) : Len(t) = 2 /\ t[1] = "?" /\ IsName(t[2])}
OptionalNestedTokens ==
  {t \in Range(Classified) :
     Len(t) = 4 /\ IsName(t[1]) /\ t[2] = "." /\ t[3] = "?" /\ IsName(t[4])}
PlainNestedTokens ==
  {t \in Range(Classified) : Len(t) = 3 /\ IsName(t[1]) /\ t[2] = "." /\ IsName(t[3])}
PlainTokens == {t \in Range(Classified) : Len(t) = 1 /\ IsName(t[1])}

\* what the five rules add for the classified tokens
RuleTop ==
  {<<t[1]>> : t \in ExclusionTokens} \cup {<<t[2]>> : t \in OptionalTopTokens}
  \cup PlainTokens
RuleOptionalTop == {<<t[2]>> : t \in OptionalTopTokens}
RuleExclusions == {<<<<t[1]>>, <<t[4]>>>> : t \in ExclusionTokens}
RuleOptionalNested == {<<<<t[1]>>, <<t[4]>>>> : t \in OptionalNestedTokens}
RuleNested == RuleOptionalNested \cup {<<<<t[1]>>, <<t[3]>>>> : t \in PlainNestedTokens}

\* C8: while splitFields classifies the tokens of a view, and before its
\* precedence step, the selection holds exactly what the five rules add for the
\* tokens classified so far: 'parent.!child' puts parent in the top fields and
\* child in exclusions[parent], '?name' puts name in the top fields and in
\* optionalTop, 'parent.?child' puts child in nested[parent] and in
\* optionalNested[parent], 'parent.child' puts child in nested[parent], and
\* 'name' puts name in the top fields
C8_SplitFollowsRules ==
  pc \in {"split", "precedence"} =>
    /\ Cardinality(ExclusionTokens \cup OptionalTopTokens \cup OptionalNestedTokens
                    \cup PlainNestedTokens \cup PlainTokens)
         = Cardinality(Range(Classified))
    /\ Range(split.top) = RuleTop
    /\ Range(split.optionalTop) = RuleOptionalTop
    /\ Pairs(split.exclusions) = RuleExclusions
    /\ Pairs(split.nested) = RuleNested
    /\ Pairs(split.optionalNested) = RuleOptionalNested

\* all tokens of a list with an exclusion, an optional top-level and an
\* optional nested token are classified
C8_Witness ==
  /\ pc = "precedence"
  /\ ViewTokens = <<<<"author", ".", "!", "id">>, <<"?", "title">>,
                    <<"author", ".", "?", "id">>>>
  /\ split.top = <<<<"author">>, <<"title">>>>
  /\ split.exclusions = <<[key |-> <<"author">>, vals |-> <<<<"id">>>>]>>
  /\ split.nested = <<[key |-> <<"author">>, vals |-> <<<<"id">>>>]>>

\* the parents a returned selection mentions
SelectionParents ==
  Range(split.top) \cup Range(MapKeys(split.nested)) \cup Range(MapKeys(split.exclusions))

\* C9: in the selection splitFields returns, a parent with nested children and
\* no exclusion entry is not in the top fields, and a parent with an exclusion
\* entry is in the top fields
C9_NestedWinsUnlessExcluded ==
  pc \in {"validate", "emit"} =>
    \A parent \in SelectionParents :
      /\ MapHas(split.nested, parent) /\ ~MapHas(split.exclusions, parent)
           => parent \notin Range(split.top)
      /\ MapHas(split.exclusions, parent) => parent \in Range(split.top)

\* `author` was given as a top-level token and as a nested parent and left the
\* top fields, while the excluded-from parent `zz` stayed in them
C9_Witness ==
  /\ pc = "validate"
  /\ <<"author">> \in Range(ViewTokens)
  /\ MapHas(split.nested, <<"author">>)
  /\ <<"author">> \notin Range(split.top)
  /\ MapHas(split.exclusions, <<"zz">>)
  /\ <<"zz">> \in Range(split.top)

(***************************************************************************)
(* Properties of the emitted views.                                        *)
(***************************************************************************)
\* the emitted views whose selection `final` still holds
EmittedOfFinal == {k \in 1..Len(out) : out[k].vi = final.vi}

\* the object-typed parents of the interface that have an exclusion entry
ExclusionParents ==
  {q \in Range(MapKeys(final.exclusions)) :
     q \in ifacePropNames /\ ~GetProperty(q).type.isArray}

\* the child fields of the parent's type that are not excluded, in type order
RemainingChildren(parent) ==
  LET kept == SelectSeq(GetProperty(parent).type.props,
                        LAMBDA c : <<c.name>> \notin Range(MapGet(final.exclusions, parent)))
  IN [i \in 1..Len(kept) |-> <<kept[i].name>>]

ChildrenOf(line) == [i \in 1..Len(line.children) |-> line.children[i].name]

HasComposite(view, parent) ==
  \E i \in 1..Len(view.lines) :
    /\ view.lines[i].name = parent
    /\ view.lines[i].kind = "object"
    /\ ChildrenOf(view.lines[i]) = RemainingChildren(parent)

\* C10 as stated: every emitted view has, for every parent of the interface
\* with an exclusion entry, a top-level object composite of the parent that
\* lists the child fields of the parent's type except the excluded ones
C10_ExclusionParentEmitted ==
  \A k \in EmittedOfFinal : \A parent \in ExclusionParents :
    HasComposite(out[k], parent)

\* C10 amended: the composite is emitted when the exclusions leave at least
\* one child field of the parent's type; when they leave none, the exclusion
\* yields no line, and the view names the parent only if nested tokens
\* selected children of it
C10_ExclusionParentEmittedUnlessEmpty ==
  \A k \in EmittedOfFinal : \A parent \in ExclusionParents :
    IF RemainingChildren(parent) # <<>>
    THEN HasComposite(out[k], parent)
    ELSE ~MapHas(final.nested, parent)
           => \A i \in 1..Len(out[k].lines) : out[k].lines[i].name # parent

\* `author.!id` against author: { id; name } emitted author: { name: string }
C10_Witness ==
  \E k \in EmittedOfFinal :
    /\ MapGet(final.exclusions, <<"author">>) = <<<<"id">>>>
    /\ \E i \in 1..Len(out[k].lines) :
         /\ out[k].lines[i].name = <<"author">>
         /\ out[k].lines[i].kind = "object"
         /\ out[k].lines[i].children = <<Piece(<<"name">>, FALSE, "string")>>

(***************************************************************************)
(* Properties of the validation modes.                                     *)
(***************************************************************************)
\* the run went through its views and ended
BatchDone == req.cmd = "views" /\ pc = "done" /\ LineMatches
             /\ TargetIface.kind # "none" /\ req.schemas.state = "object"

\* the names of the child fields of a parent of the interface (of the element
\* type when the parent is an array)
ChildFieldNames(parent) ==
  ChildNames(getArrayElementTypeIfArray(GetProperty(parent).type).elem)

\* the violations of a token list against the target interface, as the texts
\* a warning names them by
ViolationsOf(ts) ==
  {<<t[Len(t)]>> : t \in {u \in Range(ts) :
      Len(u) \in {1, 2} /\ IsName(u[Len(u)]) /\ <<u[Len(u)]>> \notin ifacePropNames}}
  \cup {<<t[1]>> : t \in {u \in Range(ts) :
      Len(u) \in {3, 4} /\ u[Len(u) - 1] # "!" /\ <<u[1]>> \notin ifacePropNames}}
  \cup {<<t[1], ".", t[Len(t)]>> : t \in {u \in Range(ts) :
      /\ Len(u) \in {3, 4} /\ u[Len(u) - 1] # "!"
      /\ <<u[1]>> \in ifacePropNames
      /\ <<u[Len(u)]>> \notin ChildFieldNames(<<u[1]>>)}}
  \cup {t \in Range(ts) :
      /\ Len(t) = 4 /\ t[3] = "!"
      /\ \/ <<t[1]>> \notin ifacePropNames
         \/ <<t[4]>> \notin ChildFieldNames(<<t[1]>>)}

\* the parents that violating exclusion tokens name
ExcludedFromUnknown(ts) ==
  {<<t[1]>> : t \in {u \in Range(ts) :
      Len(u) = 4 /\ u[3] = "!" /\ <<u[1]>> \notin ifacePropNames}}

WarningsOf(j) == SelectSeq(warnings, LAMBDA w : w.view = Views[j].name)
EmittedOf(j) == SelectSeq(out, LAMBDA v : v.vi = j)
LineNames(v) == {v.lines[i].name : i \in 1..Len(v.lines)}

\* C11: in strict mode a view with a violation is not emitted and gets one
\* skip warning that names all of its violations (and nothing that is not
\* one), while the views of the same batch without a violation are emitted
\* (holds under SpecView, whose parents are objects; under SpecArrays the
\* excluded children of an array parent are checked against the array type,
\* so the strict view `photos.!length` is emitted and `photos.!alt` skipped)
C11_StrictSkipsViolatingView ==
  (BatchDone /\ req.mode = "strict") =>
    \A j \in 1..Len(Views) :
      IF ViolationsOf(Views[j].tokens) # {}
      THEN /\ EmittedOf(j) = <<>>
           /\ Len(WarningsOf(j)) = 1
           /\ WarningsOf(j)[1].kind = "Skipped"
           /\ ViolationsOf(Views[j].tokens) \subseteq Range(WarningsOf(j)[1].invalid)
           /\ Range(WarningsOf(j)[1].invalid)
                \subseteq ViolationsOf(Views[j].tokens)
                          \cup ExcludedFromUnknown(Views[j].tokens)
      ELSE (\E i \in 1..Len(Views) : ViolationsOf(Views[i].tokens) # {})
             => /\ Len(EmittedOf(j)) = 1
                /\ WarningsOf(j) = <<>>
                /\ \A t \in Range(Views[j].tokens) :
                     Len(t) = 1 => t \in LineNames(EmittedOf(j)[1])

\* a strict batch whose first view names the unknown field `zz` and an unknown
\* nested child, and whose second view is valid, ended with the second emitted
C11_Witness ==
  /\ BatchDone /\ req.mode = "strict" /\ Len(Views) = 2
  /\ Views[1].tokens = <<<<"zz">>, <<"author", ".", "zz">>>>
  /\ warnings = <<Warning("Skipped", "main", <<<<"zz">>, <<"author", ".", "zz">>>>)>>
  /\ Len(out) = 1 /\ out[1].name = "feed"
  /\ edited = <<out>>

\* the tokens of a list that select a top-level name, a nested child, an
\* excluded child
TopTokenNames(ts) ==
  {<<t[Len(t)]>> : t \in {u \in Range(ts) : Len(u) \in {1, 2} /\ IsName(u[Len(u)])}}
NestedTokenPairs(ts) ==
  {<<<<t[1]>>, <<t[Len(t)]>>>> : t \in {u \in Range(ts) :
      Len(u) \in {3, 4} /\ u[Len(u) - 1] # "!"}}
ExclusionTokenPairs(ts) ==
  {<<<<t[1]>>, <<t[4]>>>> : t \in {u \in Range(ts) : Len(u) = 4 /\ u[3] = "!"}}

\* the valid fields a token list selects: the top-level names that stay
\* scalar, and the (parent, child) pairs of the composites
ValidScalars(ts) ==
  {n \in TopTokenNames(ts) \cap ifacePropNames :
     /\ \A q \in NestedTokenPairs(ts) : q[1] # n
     /\ \A q \in ExclusionTokenPairs(ts) : q[1] # n}
ValidPairs(ts) ==
  {q \in NestedTokenPairs(ts) :
     q[1] \in ifacePropNames /\ q[2] \in ChildFieldNames(q[1])}
  \cup UNION {{<<parent, c>> : c \in {d \in ChildFieldNames(parent) :
                                        <<parent, d>> \notin ExclusionTokenPairs(ts)}} :
              parent \in {q[1] : q \in ExclusionTokenPairs(ts)} \cap ifacePropNames}

\* what an emitted view holds
ScalarsOf(v) == {v.lines[i].name : i \in {k \in 1..Len(v.lines) : v.lines[k].kind = "scalar"}}
PairsOf(v) ==
  UNION {{<<v.lines[i].name, v.lines[i].children[k].name>> :
            k \in 1..Len(v.lines[i].children)} :
         i \in {k \in 1..Len(v.lines) : v.lines[k].kind # "scalar"}}

\* the invalid top-level names, nested parents and nested children of a list
DroppedNames(ts) == {x \in ViolationsOf(ts) : Len(x) < 4}

EmitsValidFields(j) ==
  LET ts == Views[j].tokens
  IN IF ValidScalars(ts) = {} /\ ValidPairs(ts) = {}
     THEN EmittedOf(j) = <<>>
     ELSE /\ Len(EmittedOf(j)) = 1
          /\ ScalarsOf(EmittedOf(j)[1]) = ValidScalars(ts)
          /\ PairsOf(EmittedOf(j)[1]) = ValidPairs(ts)

\* C12 as stated: in partial mode every view of the batch is emitted with
\* exactly the valid fields it selects, is dropped when it selects none, and a
\* warning of the view lists every dropped name
C12_PartialEmitsValidFields ==
  (BatchDone /\ req.mode = "partial") =>
    \A j \in {i \in 1..Len(Views) : Views[i].tokens # <<>>} :
      /\ EmitsValidFields(j)
      /\ DroppedNames(Views[j].tokens) # {}
           => \E k \in 1..Len(WarningsOf(j)) :
                DroppedNames(Views[j].tokens) \subseteq Range(WarningsOf(j)[k].invalid)

\* no selected top-level name, nested parent or exclusion parent is a field
NothingKnown(ts) ==
  /\ TopTokenNames(ts) \cap ifacePropNames = {}
  /\ \A q \in NestedTokenPairs(ts) \cup ExclusionTokenPairs(ts) : q[1] \notin ifacePropNames

\* C12 amended: as stated, except that a view none of whose selected names or
\* parents is a field of the interface gets the warning "no valid fields",
\* which lists no name
C12_PartialEmitsValidFieldsOrSkips ==
  (BatchDone /\ req.mode = "partial") =>
    \A j \in {i \in 1..Len(Views) : Views[i].tokens # <<>>} :
      /\ EmitsValidFields(j)
      /\ IF NothingKnown(Views[j].tokens)
         THEN WarningsOf(j) = <<Warning("SkippedNoValid", Views[j].name, <<>>)>>
         ELSE DroppedNames(Views[j].tokens) # {}
                => /\ Len(WarningsOf(j)) = 1
                   /\ WarningsOf(j)[1].kind = "Partial"
                   /\ DroppedNames(Views[j].tokens)
                        \subseteq Range(WarningsOf(j)[1].invalid)

\* a partial batch whose first view names `id` and the unknown child
\* `author.zz` ended with `id` alone emitted for it, a warning naming the
\* child, and the second view emitted
C12_Witness ==
  /\ BatchDone /\ req.mode = "partial" /\ Len(Views) = 2
  /\ Views[1].tokens = <<<<"id">>, <<"author", ".", "zz">>>>
  /\ warnings = <<Warning("Partial", "main", <<<<"author", ".", "zz">>>>)>>
  /\ Len(out) = 2
  /\ LineNames(out[1]) = {<<"id">>}
  /\ out[2].name = "feed"

\* what a mode emits and warns for the selection of the current view
EmittedUnder(mode) ==
  LET o == ValidationOutcome(split, mode, Views[vi].name)
  IN IF o.skip THEN <<>> ELSE ViewLines(o.final)
WarnedUnder(mode) == ValidationOutcome(split, mode, Views[vi].name).warn

\* two warning lists that differ in their wording at most
SameUpToWording(ws, vs) ==
  /\ Len(ws) = Len(vs)
  /\ \A i \in 1..Len(ws) : ws[i].view = vs[i].view /\ ws[i].invalid = vs[i].invalid

\* C13 as stated: for the selection of every view, loose mode and partial mode
\* emit the same lines, and their warnings differ in wording only
C13_LooseEqualsPartial ==
  pc = "validate" =>
    /\ EmittedUnder("partial") = EmittedUnder("loose")
    /\ SameUpToWording(WarnedUnder("partial"), WarnedUnder("loose"))

\* the excluded children that a known parent's type does not have
UnknownExcludedChildren(ts) ==
  {t \in ViolationsOf(ts) : Len(t) = 4 /\ <<t[1]>> \in ifacePropNames}

NamedBy(ws) == UNION {Range(ws[i].invalid) : i \in 1..Len(ws)}

\* C13 amended: for the selection of every view of a loose run, partial mode
\* would emit the same lines; loose mode names every
\* violation except the excluded children that a known parent does not have,
\* which only partial mode reports, and partial mode names every violation
\* unless it skips the view for having no valid field
C13_LooseEmitsAsPartial ==
  (pc = "validate" /\ req.mode = "loose") =>
    LET loose == ValidationOutcome(split, "loose", Views[vi].name)
        partial == ValidationOutcome(split, "partial", Views[vi].name)
        violations == ViolationsOf(ViewTokens)
        unknownExcluded == UnknownExcludedChildren(ViewTokens)
        looseNames == NamedBy(loose.warn)
    IN /\ (IF partial.skip THEN <<>> ELSE ViewLines(partial.final))
            = (IF loose.skip THEN <<>> ELSE ViewLines(loose.final))
       /\ Len(loose.warn) <= 1 /\ Len(partial.warn) <= 1
       /\ violations \ unknownExcluded \subseteq looseNames
       /\ looseNames \cap unknownExcluded = {}
       /\ looseNames \subseteq violations \cup ExcludedFromUnknown(ViewTokens)
       /\ IF NothingKnown(ViewTokens)
          THEN partial.warn = <<Warning("SkippedNoValid", Views[vi].name, <<>>)>>
          ELSE violations \subseteq NamedBy(partial.warn)

\* `id` and `author.!zz` are validated in a loose run: both modes emit `id` and the whole
\* `author`, partial mode warns about `author.!zz`, loose mode does not warn
C13_Witness ==
  /\ pc = "validate" /\ req.mode = "loose"
  /\ ViewTokens = <<<<"id">>, <<"author", ".", "!", "zz">>>>
  /\ Len(EmittedUnder("loose")) = 2
  /\ WarnedUnder("loose") = <<>>
  /\ WarnedUnder("partial") =
       <<Warning("Partial", "main", <<<<"author", ".", "!", "zz">>>>)>>

(***************************************************************************)
(* Properties of the order of the emitted lines.                           *)
(***************************************************************************)
\* the position of a field in the declaration of the target interface
DeclIndex(name) ==
  CHOOSE i \in 1..Len(TargetIface.members) : <<TargetIface.members[i].name>> = name

LineNameSeq(v) == [i \in 1..Len(v.lines) |-> v.lines[i].name]

\* C14 as stated: the lines of every emitted view follow the order in which
\* the target interface declares their fields
C14_DeclarationOrder ==
  \A k \in 1..Len(out) : \A i, j \in 1..Len(out[k].lines) :
    i < j => DeclIndex(out[k].lines[i].name) <= DeclIndex(out[k].lines[j].name)

\* the first token of a list that puts a name among the top-level fields, and
\* the first that selects a nested child of it (0: none)
FirstIndex(S) == IF S = {} THEN 0 ELSE CHOOSE i \in S : \A k \in S : i <= k
TopFirst(ts, name) ==
  FirstIndex({i \in 1..Len(ts) :
    \/ Len(ts[i]) \in {1, 2} /\ <<ts[i][Len(ts[i])]>> = name
    \/ Len(ts[i]) = 4 /\ ts[i][3] = "!" /\ <<ts[i][1]>> = name})
NestedFirst(ts, name) ==
  FirstIndex({i \in 1..Len(ts) :
    Len(ts[i]) \in {3, 4} /\ ts[i][Len(ts[i]) - 1] # "!" /\ <<ts[i][1]>> = name})

\* C14 amended: the lines of every emitted view are the top-level fields in
\* the order in which the tokens first name them, followed by the nested
\* composites in the order in which the tokens first name their parents
C14_TokenOrder ==
  \A k \in 1..Len(out) :
    LET ts == Views[out[k].vi].tokens
        names == LineNameSeq(out[k])
    IN \E m \in 0..Len(names) :
         /\ \A i \in 1..m : TopFirst(ts, names[i]) > 0
         /\ \A i, j \in 1..m : i < j => TopFirst(ts, names[i]) < TopFirst(ts, names[j])
         /\ \A i \in (m + 1)..Len(names) :
              NestedFirst(ts, names[i]) > 0 /\ out[k].lines[i].kind # "scalar"
         /\ \A i, j \in (m + 1)..Len(names) :
              i < j => NestedFirst(ts, names[i]) < NestedFirst(ts, names[j])

\* the tokens "author.name", "?title", "id" were emitted as title, id, author
C14_Witness ==
  \E k \in 1..Len(out) :
    /\ Views[out[k].vi].tokens = <<<<"author", ".", "name">>, <<"?", "title">>, <<"id">>>>
    /\ LineNameSeq(out[k]) = <<<<"title">>, <<"id">>, <<"author">>>>

(***************************************************************************)
(* Properties of the declaration store (checked under SpecStore).          *)
(***************************************************************************)
\* the texts a path held before one of the first n delivered changes
PreChangeTexts(p, n) ==
  {events.changes[i].before.sf :
     i \in {j \in 1..n : /\ events.changes[j].path = p
                         /\ events.changes[j].before.exists}}

\* the call returned a source file parsed from a text that a notification
\* delivered before the call had already reported as replaced
ReturnsStale(l) == l.pc = "done" /\ l.result \in PreChangeTexts(l.path, l.seen)

\* C15: every delivered create / change / delete notification leaves the
\* store with no project and an empty source-file cache, and no lookup that
\* starts after a notification returns a source file parsed from the text
\* the file had before the notified change.
C15_NotificationClearsStore ==
  /\ [][events'.delivered > events.delivered
          => (project' = NoProject /\ sfCache' = <<>>)]_vars
  /\ [](\A i \in 1..Len(lookups) : ~ReturnsStale(lookups[i]))

\* a file was loaded, then changed and notified, and a later lookup of the
\* same path returned the new text while the first had returned the old one
C15_Witness ==
  \E i, j \in 1..Len(lookups) :
    /\ i < j
    /\ lookups[i].path = lookups[j].path
    /\ lookups[i].pc = "done" /\ lookups[j].pc = "done"
    /\ lookups[i].seen = 0 /\ lookups[j].seen > 0
    /\ lookups[i].result \in PreChangeTexts(lookups[j].path, lookups[j].seen)
    /\ lookups[j].result = disk[lookups[j].path].sf
    /\ project # NoProject

(***************************************************************************)
(* Properties of the checker's failures.                                   *)
(***************************************************************************)
\* the view command ran past its preliminary checks and has ended
ViewsEnded ==
  /\ req.cmd = "views" /\ LineMatches /\ TargetIface.kind # "none"
  /\ req.schemas.state = "object"
  /\ pc \in {"done", "thrown"}

\* every token of the view is the plain name of an annotated property
PlainAnnotated(j) ==
  \A i \in 1..Len(Views[j].tokens) :
    LET t == Views[j].tokens[i]
    IN Len(t) = 1 /\ HasProperty(t) /\ GetProperty(t).tn # NoAnnot

\* what the command wrote or inserted
Delivered == Concat(written) \o Concat(edited)

\* C16 (view generation): a type text that throws is caught where it is asked
\* for and emitted as `any`, so the command does not end in its catch block
\* and every view of plain annotated fields is still produced.
C16_CheckerFailureCaught ==
  ViewsEnded =>
    /\ pc = "done"
    /\ \A j \in 1..Len(Views) :
         (Views[j].tokens # <<>> /\ PlainAnnotated(j))
           => \E k \in 1..Len(Delivered) : Delivered[k].vi = j
    /\ \A k \in 1..Len(Delivered) : \A i \in 1..Len(Delivered[k].lines) :
         Delivered[k].lines[i].type # Throws

\* C16 (class and factory generation): a property whose checker type text
\* throws becomes a field of type `any`, next to the other fields.
C16_FieldsBecomeAny ==
  (pc = "done" /\ req.cmd \in {"class", "factory"} /\ written \o edited # <<>>) =>
    LET ms == IF her.kind = "none" THEN TargetIface.members ELSE found.decl.members
    IN \A i \in 1..Len(properties) :
         /\ properties[i].type # Throws
         /\ \A k \in 1..Len(ms) :
              (/\ ms[k].name = properties[i].name
               /\ ms[k].tn = NoAnnot /\ ms[k].chk = Throws
               /\ her.kind # "none" =>
                    \A o \in 1..Len(TargetIface.members) :
                      TargetIface.members[o].name # ms[k].name)
                => properties[i].type = "any"

C16_FieldsBecomeAnyWitness ==
  /\ pc = "done" /\ req.cmd \in {"class", "factory"} /\ written \o edited # <<>>
  /\ \E i \in 1..Len(properties) : properties[i].type = "any"
  /\ Len(properties) > 1

(***************************************************************************)
(* The effects of a command (checked under SpecCommands).                  *)
(***************************************************************************)
Ended == pc \in {"done", "thrown"}

ErrorShown == \E i \in 1..Len(shown) : shown[i].level = "error"

\* the failures of generateClassFromInterface / generateFactoryFromInterface
\* that the inputs decide: no name, no declaration, no base nearby, invalid
\* Pick keys, no field left
ShapeFailure ==
  /\ req.cmd \in {"class", "factory"}
  /\ \/ ~LineMatches
     \/ TargetIface.kind = "none"
     \/ her.kind # "none" /\ found.decl.kind = "none"
     \/ /\ her.kind = "pick"
        /\ InvalidPickKeys(getPropsFromDecl(found.decl), her.keys) # <<>>
     \/ properties = <<>>

\* the failures of generateViewInterfaces: no name, no declaration, no usable
\* _viewSchemas, no view generated
ViewFailure ==
  /\ req.cmd = "views"
  /\ \/ ~LineMatches
     \/ TargetIface.kind = "none"
     \/ req.schemas.state # "object"
     \/ generated = 0

\* C17: a command that fails shows an error and neither writes a file nor
\* edits the document; a write or an edit is made only by a command that
\* succeeds, and one invocation makes at most one of the two.
C17_NoEffectOnFailure ==
  /\ Len(written) + Len(edited) <= 1
  /\ (written \o edited # <<>>) => (pc = "done" /\ ~ErrorShown)
  /\ (Ended /\ (ShapeFailure \/ ViewFailure \/ ErrorShown))
       => (ErrorShown /\ written = <<>> /\ edited = <<>>)

\* a view command that validated a view and generated none has ended with
\* its error and without a write
C17_Witness ==
  /\ pc = "done" /\ req.cmd = "views" /\ vi > 0 /\ generated = 0
  /\ shown = <<Err("NoViews")>>
  /\ warnings # <<>>
  /\ written = <<>> /\ edited = <<>>

(***************************************************************************)
(* Bases in other files (checked under SpecShape).                         *)
(***************************************************************************)
ImportedBasePath == Path(<<"m">>, ".ts")

\* the base is declared by a relatively imported file and not by the
\* current one
BaseOnlyImported ==
  /\ LookupDecl(req.doc, BaseName).kind = "none"
  /\ req.doc.imports = <<RelSpec("m")>>
  /\ fileExists(ImportedBasePath)
  /\ LookupDecl(disk[ImportedBasePath].sf, BaseName).kind # "none"

\* the declaration under the cursor narrows a base by Pick or Omit
NamesBase ==
  \/ req.cmd = "class" /\ TargetIface.kind # "none"
     /\ DetectHeritage("class", TargetIface).kind # "none"
  \/ req.cmd = "classType" /\ TargetAlias.kind # "none"
     /\ FirstSel(TargetAlias.sel, "Omit").op # "none"

\* C18: whichever class command is invoked, a base declared only in a
\* relatively imported file is found there, and the class is generated from
\* its fields unless the selection leaves none or names a field it has not.
C18_ClassCommandsFollowImports ==
  (pc = "done" /\ LineMatches /\ NamesBase /\ BaseOnlyImported) =>
    /\ found.path = ImportedBasePath
    /\ found.decl = LookupDecl(disk[ImportedBasePath].sf, BaseName)
    /\ \A i \in 1..Len(shown) :
         shown[i].kind \notin {"BaseNotFoundNearby", "BaseNotInFile"}

\* C18 for the interface command alone
C18_InterfaceCommandFollowsImports ==
  req.cmd = "class" => C18_ClassCommandsFollowImports

C18_InterfaceCommandWitness ==
  /\ req.cmd = "class" /\ pc = "done" /\ LineMatches /\ NamesBase /\ BaseOnlyImported
  /\ written \o edited # <<>>

(***************************************************************************)
(* Properties of syncClassWithInterfaceProps (checked under SpecSync).     *)
(***************************************************************************)
\* the class declares every property of the interface and the body of its
\* constructor assigns every one of them
InSync(doc) ==
  /\ missingDecls(doc) = <<>>
  /\ missingAssignments(doc) = <<>>
  /\ Constructors(doc) # <<>>

\* C19: once the command has applied its edit the class is in sync with the
\* interface, and no later invocation makes another edit.
C19_SyncIsIdempotent ==
  edited # <<>> => (InSync(document) /\ Len(edited) = 1)

\* C19 for a class that has a constructor and a line break after its brace
C19_SyncIsIdempotentWithConstructor ==
  (Constructors(req.doc) # <<>>) => C19_SyncIsIdempotent

C19_WithConstructorWitness ==
  /\ Constructors(req.doc) # <<>>
  /\ Len(edited) = 1 /\ Len(shown) = 2
  /\ edited[1].decls # <<>> /\ edited[1].assignments # <<>>
  /\ shown[2].kind = "NothingMissing"

(***************************************************************************)
(* The heritage selector (checked under SpecShape).                        *)
(***************************************************************************)
\* the string-literal members of the key argument of a reference, in order
LiteralKeys(tn) ==
  LET lits == SelectSeq(tn.keys, LAMBDA k : k.lit)
  IN [i \in 1..Len(lits) |-> lits[i].quoted[1]]

\* a Pick or Omit reference with two type arguments, a base name and at
\* least one string-literal key
Eligible(tn) ==
  /\ tn.expr = "Pick" \/ tn.expr = "Omit"
  /\ tn.nargs = 2
  /\ getBaseNameFromTypeArg(tn.base) # <<>>
  /\ \E i \in 1..Len(tn.keys) : tn.keys[i].lit

\* the class command has scanned the heritage of the interface under the cursor
ScanDone ==
  /\ req.cmd = "class" /\ pc # "start"
  /\ LineMatches /\ TargetIface.kind # "none"

\* C20: the selector is the first eligible reference of the heritage, in
\* clause order: its kind, its base name and its literal keys; with no
\* eligible reference there is no selector and the fields are the
\* interface's own.
C20_FirstEligibleReference ==
  ScanDone =>
    LET hs == TargetIface.heritage
        el == {i \in 1..Len(hs) : Eligible(hs[i])}
    IN IF el = {}
       THEN /\ her = NoHeritage
            /\ properties = PropsOfMembers(TargetIface.members)
       ELSE \E i \in el :
              /\ \A j \in el : i <= j
              /\ her.kind = (IF hs[i].expr = "Pick" THEN "pick" ELSE "omit")
              /\ her.base = getBaseNameFromTypeArg(hs[i].base)
              /\ her.keys = LiteralKeys(hs[i])

\* a first reference without a literal key was passed over, and a later
\* eligible reference after the one taken was ignored
C20_Witness ==
  /\ ScanDone /\ pc = "done" /\ written \o edited # <<>>
  /\ Len(TargetIface.heritage) = 2
  /\ \/ /\ TargetIface.heritage[1].expr = "Pick"
        /\ TargetIface.heritage[1].nargs = 2
        /\ ~Eligible(TargetIface.heritage[1])
        /\ her.kind = "omit"
     \/ /\ Eligible(TargetIface.heritage[1]) /\ Eligible(TargetIface.heritage[2])
        /\ her.kind = "omit" /\ her.keys = <<"a">>

(***************************************************************************)
(* The base name of a heritage (checked under SpecShape).                  *)
(***************************************************************************)
IsWrapper(tn) == tn.ref /\ tn.name \in Wrappers /\ tn.targs # <<>>

\* the name of T under any nesting of Readonly<..>, Partial<..>, Required<..>
RECURSIVE UnwrappedName(_)
UnwrappedName(tn) == IF IsWrapper(tn) THEN UnwrappedName(tn.targs[1]) ELSE tn.name

\* an interface command has taken a reference of the heritage as its selector
HeritageParsed ==
  /\ req.cmd \in {"class", "factory"} /\ pc # "start"
  /\ LineMatches /\ TargetIface.kind # "none"
  /\ her.kind # "none"

\* the reference an interface command takes: the first one that matches
TakenNode ==
  LET hs == TargetIface.heritage
      i == CHOOSE k \in 1..Len(hs) :
             /\ NodeMatches(req.cmd, hs[k])
             /\ \A j \in 1..(k - 1) : ~NodeMatches(req.cmd, hs[j])
  IN hs[i]

\* C21: in the class and in the factory command alike, when the first type
\* argument of the reference taken is a wrapper reference, the base that is
\* looked up is the name of the innermost wrapped type.
C21_BaseIsUnwrapped ==
  (HeritageParsed /\ IsWrapper(TakenNode.base))
    => her.base = UnwrappedName(TakenNode.base)

\* the class command alone unwraps: its base is the innermost name
C21_ClassCommandUnwraps ==
  (HeritageParsed /\ req.cmd = "class" /\ IsWrapper(TakenNode.base))
    => her.base = UnwrappedName(TakenNode.base)

\* the class command wrote a class for Pick<Partial<Readonly<Base>>, "a">
C21_ClassCommandWitness ==
  /\ HeritageParsed /\ req.cmd = "class" /\ pc = "done"
  /\ TakenNode.base = Wrapped("Partial", Wrapped("Readonly", TypeRef(BaseName)))
  /\ her.base = BaseName
  /\ written \o edited # <<>>

(***************************************************************************)
(* The probes of a relative import (checked under SpecResolve).            *)
(***************************************************************************)
\* the candidates of a specifier up to and including the first that exists
ProbesOfImport(spec) ==
  LET cs == Candidates(spec)
      ex == {i \in 1..Len(cs) : fileExists(cs[i])}
  IN IF ex = {} THEN cs
     ELSE SubSeq(cs, 1, CHOOSE i \in ex : \A j \in ex : i <= j)

\* the file a specifier names declares the name
NamedFileDeclares(spec, simple) ==
  LET fsPath == NamedFile(spec)
  IN fsPath # <<>> /\ Declares(disk[fsPath[1]].sf, simple)

\* the probes of the import tier: those of the relative imports from the
\* i-th on, in source order, ending with the first whose file declares the name
RECURSIVE ImportProbesFrom(_, _)
ImportProbesFrom(i, simple) ==
  IF i > Len(req.doc.imports) THEN <<>>
  ELSE LET spec == req.doc.imports[i]
       IN IF ~spec.rel THEN ImportProbesFrom(i + 1, simple)
          ELSE ProbesOfImport(spec)
               \o (IF NamedFileDeclares(spec, simple) THEN <<>>
                   ELSE ImportProbesFrom(i + 1, simple))

\* the files the relative imports name
NamedFiles ==
  UNION {Range(NamedFile(req.doc.imports[i])) :
           i \in {j \in 1..Len(req.doc.imports) : req.doc.imports[j].rel}}

\* C22: the probes of the import tier are, for each relative specifier in
\* source order, its candidates .ts, .tsx, .d.ts, /index.ts, /index.tsx up to
\* and including the first that exists, and nothing after it; every probe
\* beyond them is a same-directory guess; only the first existing candidate
\* of a specifier is loaded or returned; a non-relative specifier is never
\* probed.
C22_FirstExistingCandidateOnly ==
  LET expected == ImportProbesFrom(1, RequestedSimple)
      n == IF Len(probes) < Len(expected) THEN Len(probes) ELSE Len(expected)
      guesses == Range(Guesses(RequestedSimple))
      named == NamedFiles
  IN /\ SubSeq(probes, 1, n) = SubSeq(expected, 1, n)
     /\ \A i \in (n + 1)..Len(probes) : probes[i] \in guesses
     /\ (SearchDone /\ ~Declares(req.doc, RequestedSimple))
          => Len(probes) >= Len(expected)
     /\ Range(loads) \subseteq named \cup guesses
     /\ found.path \in named \cup guesses \cup {CurrentPath, NoPath}
     /\ \A i \in 1..Len(probes) : \A j \in 1..Len(req.doc.imports) :
          ~req.doc.imports[j].rel => probes[i].stem # req.doc.imports[j].stem

\* `lib` and `./m` are imported, m.ts is absent, m.tsx exists and does not
\* declare the name, m.d.ts exists and declares it: m.ts and m.tsx were probed,
\* m.tsx alone was loaded, and the lookup went on to the guesses
C22_Witness ==
  /\ SearchDone
  /\ req.doc.imports = <<BareSpec("lib"), RelSpec("m")>>
  /\ ~fileExists(Path(<<"m">>, ".ts"))
  /\ fileExists(Path(<<"m">>, ".tsx"))
  /\ fileExists(Path(<<"m">>, ".d.ts"))
  /\ Declares(disk[Path(<<"m">>, ".d.ts")].sf, RequestedSimple)
  /\ Len(probes) >= 3
  /\ SubSeq(probes, 1, 3) =
       <<Path(<<"m">>, ".ts"), Path(<<"m">>, ".tsx"), Path(<<"Base">>, ".ts")>>
  /\ loads = <<Path(<<"m">>, ".tsx")>>
  /\ found = NoFound

(***************************************************************************)
(* The child lookup context of a parent (checked under SpecArrays).        *)
(***************************************************************************)
\* a view has been validated and `final` holds its selection
Validated == req.cmd = "views" /\ final.vi # 0

ValidatedTokens == Views[final.vi].tokens

IsArrayParent(parent) == GetProperty(parent).type.isArray

\* the nested children of known parents are reported exactly when the child
\* context of the parent, its element type for an array, does not have them
NestedCheckedInContext ==
  \A q \in NestedTokenPairs(ValidatedTokens) :
    q[1] \in ifacePropNames
      => ((q[1] \o <<".">> \o q[2] \in Range(final.invalid))
            <=> q[2] \notin ChildFieldNames(q[1]))

\* the excluded children of known parents, which strict and partial mode
\* check, are reported exactly when the child context does not have them
ExcludedCheckedInContext ==
  \A q \in ExclusionTokenPairs(ValidatedTokens) :
    (q[1] \in ifacePropNames /\ req.mode \in {"strict", "partial"})
      => ((q[1] \o <<".", "!">> \o q[2] \in Range(final.invalid))
            <=> q[2] \notin ChildFieldNames(q[1]))

\* every emitted composite is an array exactly for an array parent, and the
\* emitted children are the selected fields of the child context
EmittedFromContext ==
  \A k \in 1..Len(out) :
    /\ \A i \in 1..Len(out[k].lines) :
         LET l == out[k].lines[i]
         IN l.kind # "scalar"
              => /\ l.kind = (IF IsArrayParent(l.name) THEN "array" ELSE "object")
                 /\ Range(ChildrenOf(l)) \subseteq ChildFieldNames(l.name)
    /\ PairsOf(out[k]) = ValidPairs(Views[out[k].vi].tokens)

\* C23: for an array parent the element type is the child context everywhere:
\* nested children and excluded children are validated against its fields and
\* emitted from its fields, and the composite is an array of objects; for
\* another parent the context is the field's own type and the composite a
\* plain object.
C23_ElementTypeIsContext ==
  Validated => /\ NestedCheckedInContext
               /\ ExcludedCheckedInContext
               /\ EmittedFromContext

\* nested children are validated, and every composite is emitted, in the
\* child context
C23_NestedAndEmissionUseContext ==
  Validated => NestedCheckedInContext /\ EmittedFromContext

\* `photos.url` and `author.name` were selected: photos is emitted as an
\* array of { url } and author as the plain object { name }
C23_NestedAndEmissionWitness ==
  /\ Validated /\ pc = "done"
  /\ ValidatedTokens = <<<<"photos", ".", "url">>, <<"author", ".", "name">>>>
  /\ Len(out) = 1
  /\ out[1].lines =
       <<Line(<<"photos">>, FALSE, "array", "", <<Piece(<<"url">>, FALSE, "string")>>),
         Line(<<"author">>, FALSE, "object", "", <<Piece(<<"name">>, FALSE, "string")>>)>>

(***************************************************************************)
(* Loads that are suspended across a notification (checked under           *)
(* SpecStore).                                                             *)
(***************************************************************************)
\* the store pr holds the source file sf for the path p
RegisteredIn(pr, p, sf) == p \in DOMAIN pr /\ pr[p].loaded /\ pr[p].sf = sf

\* the i-th call resumes from its awaited read and returns in this step
Resumes(i) == lookups[i].pc = "resume" /\ lookups'[i].pc = "done"

\* C24: a load that resumes from its awaited read registers its file in the
\* store that is current when it resumes, also when the store was invalidated
\* while the load was suspended.
C24_LoadsRegisterInCurrentStore ==
  [][\A i \in 1..Len(lookups) :
       Resumes(i) => RegisteredIn(project', lookups[i].path, lookups'[i].result)]_vars

\* a load that no notification interrupted registers its file in the current
\* store, and so does every load that begins after a notification
C24_UninterruptedLoadsRegister ==
  [][\A i \in 1..Len(lookups) :
       (Resumes(i) /\ lookups[i].seen = events.delivered)
         => RegisteredIn(project', lookups[i].path, lookups'[i].result)]_vars

\* a load that began after a notification has returned and its file is in
\* the store that the load created
C24_UninterruptedWitness ==
  \E i \in 1..Len(lookups) :
    /\ lookups[i].kind = "file" /\ lookups[i].pc = "done"
    /\ lookups[i].data # NoFile
    /\ lookups[i].seen > 0 /\ lookups[i].seen = events.delivered
    /\ RegisteredIn(project, lookups[i].path, lookups[i].result)

(***************************************************************************)
(* The field names of an emitted view (checked under SpecView).            *)
(***************************************************************************)
\* the names that two lines of the view carry
RepeatedNames(v) ==
  {v.lines[i].name : i \in {k \in 1..Len(v.lines) :
     \E j \in 1..Len(v.lines) : j # k /\ v.lines[j].name = v.lines[k].name}}

\* C25: in every emitted view each field name is on at most one line.
C25_OneLinePerField ==
  \A k \in 1..Len(out) : RepeatedNames(out[k]) = {}

\* a name is on two lines only when tokens of the view both exclude a child
\* of it and select a child of it
C25_RepeatedOnlyWhenExcludedAndNested ==
  \A k \in 1..Len(out) :
    \A n \in RepeatedNames(out[k]) :
      /\ \E q \in ExclusionTokenPairs(Views[out[k].vi].tokens) : q[1] = n
      /\ \E q \in NestedTokenPairs(Views[out[k].vi].tokens) : q[1] = n

\* the tokens author.!id and author.?id were emitted as two lines `author`
C25_RepeatedWitness ==
  /\ BatchDone /\ Len(out) = 1
  /\ Views[out[1].vi].tokens = <<<<"author", ".", "!", "id">>, <<"author", ".", "?", "id">>>>
  /\ Len(out[1].lines) = 2
  /\ RepeatedNames(out[1]) = {<<"author">>}

(***************************************************************************)
(* The views that warnings report as generated (checked under SpecView).   *)
(***************************************************************************)
\* a warning says that the j-th view was partially or loosely generated
ReportedGenerated(j) ==
  \E i \in 1..Len(WarningsOf(j)) : WarningsOf(j)[i].kind \in {"Partial", "Loose"}

\* C26: every view that a "Partially generated" or "Loosely generated"
\* warning names is emitted.
C26_ReportedViewsAreEmitted ==
  BatchDone => \A j \in 1..Len(Views) : ReportedGenerated(j) => EmittedOf(j) # <<>>

\* a view reported as generated is emitted exactly when one of its selected
\* fields is valid
C26_ReportedViewEmittedIfFieldValid ==
  BatchDone =>
    \A j \in 1..Len(Views) :
      ReportedGenerated(j) =>
        ((EmittedOf(j) # <<>>)
           <=> (ValidScalars(Views[j].tokens) \cup ValidPairs(Views[j].tokens) # {}))

\* the view [id, author.zz] got the partial warning for author.zz and was
\* emitted with id
C26_ReportedViewWitness ==
  /\ BatchDone /\ req.mode = "partial" /\ Len(Views) = 1
  /\ Views[1].tokens = <<<<"id">>, <<"author", ".", "zz">>>>
  /\ ReportedGenerated(1)
  /\ Len(out) = 1 /\ LineNames(out[1]) = {<<"id">>}

(***************************************************************************)
(* The source file of a document (checked under SpecStore).                *)
(***************************************************************************)
DocLookups == {i \in 1..Len(lookups) : lookups[i].kind = "doc"}

\* the texts the file of the document held on disk, now or before a change
DiskTexts(p) ==
  {disk[p].sf}
  \cup {events.changes[i].before.sf :
          i \in {j \in 1..Len(events.changes) : events.changes[j].path = p}}

\* C27: the source file that getSourceFileFromDocument returns has the text
\* the document had when it was called.
C27_ReturnsDocumentText ==
  \A i \in DocLookups : lookups[i].result = lookups[i].data.sf

\* the returned source file has the text of the document at the version of
\* the call or a text of the file on disk, never the text of another version
\* of the document
C27_NeverAnotherVersion ==
  \A i \in DocLookups :
    lookups[i].result \in {lookups[i].data.sf} \cup DiskTexts(lookups[i].path)

\* the document was looked up at two versions, and each call returned the
\* text of its version
C27_TwoVersionsWitness ==
  /\ Len(lookups) = 2 /\ DocLookups = {1, 2}
  /\ lookups[1].data.sf # lookups[2].data.sf
  /\ lookups[1].result = lookups[1].data.sf
  /\ lookups[2].result = lookups[2].data.sf
  /\ events.delivered = 0

(***************************************************************************)
(* Own fields under a Pick heritage (checked under SpecShape).             *)
(***************************************************************************)
\* an interface command has resolved the fields of a Pick heritage
PickResolved ==
  /\ FromInterface /\ pc \in {"write", "done"}
  /\ her.kind = "pick" /\ BaseFound

\* C28: with a Pick heritage every resolved field is a field of the base, as
\* the base declares it: a field that the narrowing interface declares itself
\* neither replaces a base field nor is added.
C28_PickIgnoresOwnFields ==
  PickResolved =>
    /\ \A i \in 1..Len(properties) : properties[i] \in Range(BaseFields)
    /\ \A i \in 1..Len(written \o edited) :
         \A k \in 1..Len((written \o edited)[i].fields) :
           (written \o edited)[i].fields[k] \in Range(BaseFields)

\* the interface declares `d` and redeclares `a` as Date; Pick<Base, "a">
\* produced the base's `a: string` alone
C28_Witness ==
  /\ PickResolved /\ pc = "done" /\ written \o edited # <<>>
  /\ OwnFields = PropsOfMembers(<<Mem("d", "string"), Mem("a", "Date")>>)
  /\ her.keys = <<"a">>
  /\ properties = PropsOfMembers(<<Mem("a", "string")>>)
  /\ Len(BaseFields) = 3

(***************************************************************************)
(* The policy of generateFactoryFromType (checked under SpecShape).        *)
(***************************************************************************)
\* the command parsed a Pick / Omit expression and read the fields of its base
TypeSelectionResolved ==
  /\ req.cmd = "factoryType" /\ pc \in {"write", "done"}
  /\ LineMatches /\ TargetAlias.kind # "none"
  /\ TargetAlias.sel # <<>>
  /\ BaseFound
  /\ shown # <<Err("Exception")>>

\* the fields of the base the command read
TypeBaseFields ==
  IF found.decl.kind = "interface" THEN PropsOfMembers(found.decl.members)
  ELSE CheckerProps(found.decl.members)

\* the expression the base name and the keys were taken from
ParsedSelection ==
  LET omitMatch == FirstSel(TargetAlias.sel, "Omit")
  IN IF omitMatch.op # "none" THEN omitMatch ELSE FirstSel(TargetAlias.sel, "Pick")

PolicyMatchesParsed ==
  IF ParsedSelection.op = "Omit"
  THEN /\ properties = SelectSeq(TypeBaseFields,
                                 LAMBDA q : q.name \notin Range(ParsedSelection.keys))
       /\ \A i \in 1..Len(shown) : shown[i].kind # "InvalidPick"
  ELSE /\ properties = SelectSeq(TypeBaseFields,
                                 LAMBDA q : q.name \in Range(ParsedSelection.keys))
       /\ (Range(ParsedSelection.keys) \ Names(TypeBaseFields) # {})
            <=> (\E i \in 1..Len(shown) : shown[i].kind = "InvalidPick")

\* C29: the policy applied is that of the expression the base and the keys
\* were taken from: omit for an Omit<...>, pick with its invalid-key error for
\* a Pick<...>, also when the alias text holds both.
C29_PolicyMatchesParsedExpression ==
  TypeSelectionResolved => PolicyMatchesParsed

\* the same for an alias text that holds expressions of one operator only
C29_PolicyMatchesSingleExpression ==
  (TypeSelectionResolved /\ \A i \in 1..Len(TargetAlias.sel) :
                              TargetAlias.sel[i].op = TargetAlias.sel[1].op)
    => PolicyMatchesParsed

\* Omit<Base, "a"> alone produced the other two fields of the base
C29_SingleExpressionWitness ==
  /\ TypeSelectionResolved /\ pc = "done" /\ written \o edited # <<>>
  /\ TargetAlias.sel = <<Sel("Omit", BaseName, <<"a">>)>>
  /\ Len(TypeBaseFields) = 3
  /\ Names(properties) = {"b", "c"}

(***************************************************************************)
(* findInterfaceOrTypeNearby against findDeclNearby (checked under         *)
(* SpecResolve).  Its awaits are taken in one evaluation: no file changes  *)
(* during a lookup.                                                        *)
(***************************************************************************)
\* the source file ensureFileLoaded(p) returns for an existing file
LoadedSourceFile(p) == IF IsLoaded(p) THEN project[p].sf ELSE disk[p].sf

\* variant: sf.getTypeAlias(simple) || sf.getInterface(simple)
InterfaceOrTypeAliasFirst(sf, simple) ==
  LET i == GetDecl(sf, "interface", simple)
      t == GetDecl(sf, "type", simple)
  IN IF t.kind # "none" THEN t ELSE i

\* sf.getInterface(simple) || sf.getTypeAlias(simple)
InterfaceOrType(sf, simple) ==
  LET i == GetDecl(sf, "interface", simple)
      t == GetDecl(sf, "type", simple)
  IN IF i.kind # "none" THEN i ELSE t

\* the import loop of findInterfaceOrTypeNearby from the i-th import on
RECURSIVE NearbyInImports(_, _)
NearbyInImports(i, simple) ==
  IF i > Len(req.doc.imports) THEN NoFound
  ELSE LET spec == req.doc.imports[i]
           fsPath == NamedFile(spec)
       IN IF ~spec.rel \/ fsPath = <<>> THEN NearbyInImports(i + 1, simple)
          ELSE LET d == InterfaceOrType(LoadedSourceFile(fsPath[1]), simple)
               IN IF d.kind # "none" THEN [path |-> fsPath[1], decl |-> d]
                  ELSE NearbyInImports(i + 1, simple)

\* what findInterfaceOrTypeNearby(name, fromFsPath, currentSf) returns
findInterfaceOrTypeNearby(name) ==
  LET simple == SplitPop(name)
      d == InterfaceOrType(req.doc, simple)
      imported == NearbyInImports(1, simple)
      guess == Path(simple, ".ts")
  IN IF d.kind # "none" THEN [path |-> CurrentPath, decl |-> d]
     ELSE IF imported # NoFound THEN imported
     ELSE IF fileExists(guess)
             /\ InterfaceOrType(LoadedSourceFile(guess), simple).kind # "none"
     THEN [path |-> guess, decl |-> InterfaceOrType(LoadedSourceFile(guess), simple)]
     ELSE NoFound

\* C30: whenever findInterfaceOrTypeNearby returns a declaration,
\* findDeclNearby, called with the same name, importing file and files on
\* disk, has returned that declaration.
C30_RefinesFindDeclNearby ==
  SearchDone =>
    LET r == findInterfaceOrTypeNearby(her.base)
    IN r # NoFound => found = r

\* both return the declaration of the guess file Base.ts, after an imported
\* file that does not declare the name
C30_Witness ==
  /\ SearchDone
  /\ req.doc.imports # <<>>
  /\ Len(loads) + Len(probes) > 2
  /\ findInterfaceOrTypeNearby(her.base).path = Path(<<"Base">>, ".ts")
  /\ found = findInterfaceOrTypeNearby(her.base)
  /\ found.decl.kind # "none"

\* the converse does not hold: findDeclNearby returned the declaration of
\* Base.tsx or Base.d.ts, which findInterfaceOrTypeNearby does not probe
C30_ConverseFailsWitness ==
  /\ SearchDone
  /\ found.decl.kind # "none"
  /\ found.path \in {Path(<<"Base">>, ".tsx"), Path(<<"Base">>, ".d.ts")}
  /\ findInterfaceOrTypeNearby(her.base) = NoFound
====
